---- MODULE Spec2Model ----
(***************************************************************************)
(* Model of the 5GMS Application Server (rt-5gms-application-server):      *)
(* the control store (Context), the M3 handlers (M3Server), the process    *)
(* supervisor (WebProxyInterface / NginxWebProxy) and the application      *)
(* controller (__app).                                                     *)
(***************************************************************************)
EXTENDS Integers, Sequences, FiniteSets, TLC

VARIABLES
    provisioning_sessions,  \* Context.__provisioning_sessions: psid -> [chc, chc_hash]
    certificates,           \* Context.__certificates: certificate id -> cache filename
    cert_files,             \* the certificates_cache directory: filename -> PEM text
    conf,                   \* the generated nginx configuration file (or NoFile)
    purging,                \* DELETE handlers suspended in purgeAll
    m3_starting,            \* POST handlers suspended in startDaemon
    resp,                   \* the last handler step and the status it answered
    proc,                   \* WebProxyInterface.__daemon['proc'] (0 is None)
    start_times,            \* WebProxyInterface.__daemon['start_times']
    now,                    \* time.monotonic_ns(), in seconds
    alive,                  \* the child processes that are running
    spawned,                \* number of child processes created so far
    signalled,              \* children the supervisor has sent SIGTERM
    pc,                     \* where the __app coroutine is suspended
    app_exit,               \* the app_exit Future: "Pending", or its result
    set_calls,              \* set_result calls made on app_exit so far
    wait_task,              \* the Proxy-monitor task
    wait_on,                \* the child its communicate() is bound to
    m3_serve_task,          \* the M3-server task
    loop_sigs,              \* signals delivered while __app was in its main loop
    retcode,                \* how the process ended: "NotExited", 0, 1, 2, ...
    cache,                  \* the files in the proxy cache directory (cache_dir)
    purge_job,              \* the _purge call that is between its scan and its return
    last_ret,               \* what the call made on the store or the proxy by the last step returned
    sighups,                \* SIGHUPs the last handler step sent to the child
    server_configs,         \* writeConfiguration's server_configs dict, as a list of entries
    merge_ret,              \* what the last mergeServer call returned
    merge_pos               \* the pair (i, j) the merge loops are at, MergeDone after them

vars == <<provisioning_sessions, certificates, cert_files, conf, purging, m3_starting,
          resp, proc, start_times, now, alive, spawned, signalled, pc, app_exit,
          set_calls, wait_task, wait_on, m3_serve_task, loop_sigs, retcode,
          cache, purge_job, last_ret, sighups, server_configs, merge_ret, merge_pos>>

storeVars == <<provisioning_sessions, certificates, cert_files>>
daemonVars == <<proc, start_times, alive, spawned, signalled>>
appVars == <<now, pc, app_exit, set_calls, wait_task, wait_on, m3_serve_task,
             loop_sigs, retcode>>
proxyVars == <<cache, purge_job, last_ret, sighups>>
ngxVars == <<server_configs, merge_ret, merge_pos>>

----------------------------------------------------------------------------
(* Bounds and input universes *)

MaxDCs == 1          \* longest distributionConfigurations array
MaxRules == 2        \* most rewrite rules added to one location

Psids == {"ps1", "ps2"}
CertIds == {"certA", "certB"}
\* PEM texts: a body and the line terminator its lines end with
Pem(body, eol) == [body |-> body, eol |-> eol]
Pems == {Pem("pem1", "LF"), Pem("pem2", "LF")}
CrLfPems == {Pem("pem1", "CRLF")}
NoCert == "None"
CertRefs == CertIds \cup {NoCert}

DCLists == UNION {[1..n -> [certificate_id : CertRefs]] : n \in 0..MaxDCs}

\* Well-formed CHCs, and the malformed ones the sanity checks of the store look at.
ValidCHCs == [ingest : {"http-pull-ingest"}, has_dcs : {TRUE}, dcs : DCLists]
OddCHCs == {[ingest |-> "None", has_dcs |-> TRUE, dcs |-> <<>>],
            [ingest |-> "http-pull-ingest", has_dcs |-> FALSE, dcs |-> <<>>],
            [ingest |-> "push-ingest", has_dcs |-> TRUE, dcs |-> <<>>]}
CHCs == ValidCHCs \cup OddCHCs

NoFile == [exists |-> FALSE, from |-> <<>>]

\* dict helpers: del d[k] and d[k] = v
Without(d, k) == [x \in DOMAIN d \ {k} |-> d[x]]
With(d, k, v) == [x \in DOMAIN d \cup {k} |-> IF x = k THEN v ELSE d[x]]

----------------------------------------------------------------------------
(* Control store: Context *)

\* json(sort_keys=True) of a CHC, as a number: one digit per distribution
\* configuration, then the two leading members.
RECURSIVE DCsCode(_)
DCsCode(dcs) ==
    IF dcs = <<>> THEN 0
    ELSE (CASE dcs[1].certificate_id = NoCert -> 1
            [] dcs[1].certificate_id = "certA" -> 2
            [] OTHER -> 3) + 4 * DCsCode(Tail(dcs))

IngestCode(chc) ==
    CASE chc.ingest = "None" -> 0
      [] chc.ingest = "http-pull-ingest" -> 1
      [] OTHER -> 2

\* Context.__hashOpenAPIObject
hashOpenAPIObject(chc) ==
    (DCsCode(chc.dcs) * 2 + (IF chc.has_dcs THEN 1 ELSE 0)) * 3 + IngestCode(chc)

\* Context.haveCertificate
haveCertificate(certs, id) == id \in DOMAIN certs

\* Context.getCertificateFilename: None for an id the map does not have
getCertificateFilename(certs, id) ==
    IF haveCertificate(certs, id) THEN certs[id] ELSE NoCert

\* Context.haveContentHostingConfiguration
haveContentHostingConfiguration(sess, psid) == psid \in DOMAIN sess

\* Context.__certificateInUse
certificateInUse(sess, id) ==
    \E p \in DOMAIN sess : \E i \in 1..Len(sess[p].chc.dcs) :
        /\ sess[p].chc.dcs[i].certificate_id # NoCert
        /\ sess[p].chc.dcs[i].certificate_id = id

\* Fault variant of __addContentHostingConfiguration: the certificates named by
\* the distribution configurations are not looked up
addCHC_unvalidated(sess, certs, psid, chc, force) ==
    IF chc.ingest = "None" THEN [ret |-> "ValueError", sess |-> sess]
    ELSE IF ~chc.has_dcs THEN [ret |-> "ValueError", sess |-> sess]
    ELSE IF \/ force
            \/ psid \notin DOMAIN sess
            \/ hashOpenAPIObject(chc) # sess[psid].chc_hash
         THEN [ret |-> "True",
               sess |-> With(sess, psid, [chc |-> chc, chc_hash |-> hashOpenAPIObject(chc)])]
    ELSE [ret |-> "False", sess |-> sess]

\* Context.__addContentHostingConfiguration: the outcome (True, False or the
\* exception raised) and the provisioning sessions afterwards.
addCHC(sess, certs, psid, chc, force) ==
    IF chc.ingest = "None" THEN [ret |-> "ValueError", sess |-> sess]
    ELSE IF ~chc.has_dcs THEN [ret |-> "ValueError", sess |-> sess]
    ELSE IF \E i \in 1..Len(chc.dcs) :
                /\ chc.dcs[i].certificate_id # NoCert
                /\ ~haveCertificate(certs, chc.dcs[i].certificate_id)
         THEN [ret |-> "ValueError", sess |-> sess]
    ELSE IF \/ force
            \/ psid \notin DOMAIN sess
            \/ hashOpenAPIObject(chc) # sess[psid].chc_hash
         THEN [ret |-> "True",
               sess |-> With(sess, psid, [chc |-> chc, chc_hash |-> hashOpenAPIObject(chc)])]
    ELSE [ret |-> "False", sess |-> sess]

\* Context.addContentHostingConfiguration
addContentHostingConfiguration(sess, certs, psid, chc) ==
    LET r == addCHC(sess, certs, psid, chc, TRUE)
    IN  [ret |-> IF r.ret = "True" THEN "None" ELSE r.ret, sess |-> r.sess]

\* Context.updateContentHostingConfiguration
updateContentHostingConfiguration(sess, certs, psid, chc) ==
    IF ~haveContentHostingConfiguration(sess, psid)
    THEN [ret |-> "None", sess |-> sess]
    ELSE addCHC(sess, certs, psid, chc, FALSE)

\* Context.deleteContentHostingConfiguration / __delContentHostingConfiguration
deleteContentHostingConfiguration(sess, psid) ==
    IF psid \notin DOMAIN sess THEN [ret |-> "False", sess |-> sess]
    ELSE [ret |-> "True", sess |-> Without(sess, psid)]

\* open(cache_filename, 'w').write(text): on this platform "\n" is written as
\* it is, and so is "\r\n"
write_text(text) == text

\* open(cache_filename, 'r').read(): universal newlines, "\r\n" is read as "\n"
read_text(data) == [data EXCEPT !.eol = "LF"]

\* Fault variant of __addCertificate: the file is written, the map is left
\* as it was
addCertificate_file_only(certs, files, id, pem, force) ==
    IF id \in DOMAIN files /\ ~force /\ read_text(files[id]) = pem
    THEN [ret |-> "False", certs |-> certs, files |-> files]
    ELSE [ret |-> "True", certs |-> certs, files |-> With(files, id, write_text(pem))]

\* Context.__addCertificate: the cache file is named after the certificate id
addCertificate(certs, files, id, pem, force) ==
    IF id \in DOMAIN files /\ ~force /\ read_text(files[id]) = pem
    THEN [ret |-> "False", certs |-> certs, files |-> files]
    ELSE [ret |-> "True", certs |-> With(certs, id, id),
          files |-> With(files, id, write_text(pem))]

\* Fault variant of __delCertificate: no in-use test
delCertificate_unchecked(sess, certs, files, id) ==
    IF id \notin DOMAIN certs
    THEN [ret |-> "ConfigError", certs |-> certs, files |-> files]
    ELSE IF id \notin DOMAIN files
    THEN [ret |-> "FileNotFoundError", certs |-> Without(certs, id), files |-> files]
    ELSE [ret |-> "True", certs |-> Without(certs, id), files |-> Without(files, id)]

\* Context.__delCertificate
delCertificate(sess, certs, files, id) ==
    IF id \notin DOMAIN certs
    THEN [ret |-> "ConfigError", certs |-> certs, files |-> files]
    ELSE IF certificateInUse(sess, id)
    THEN [ret |-> "ConfigError", certs |-> certs, files |-> files]
    ELSE IF id \notin DOMAIN files
    THEN [ret |-> "FileNotFoundError", certs |-> Without(certs, id), files |-> files]
    ELSE [ret |-> "True", certs |-> Without(certs, id), files |-> Without(files, id)]

\* Context.reload: __loadConfiguration, __loadCachedCertificates (the map is
\* replaced by one entry per file of the cache directory when it differs) and
\* __reassessContentHostingConfigurations, which subscripts each stored CHC,
\* an object of the generated model classes: where they take no subscript the
\* call ends in a TypeError.  It raises ConfigError for a certificate that is
\* gone and returns True otherwise.
Context_reload(sess, certs, files, config_changed, subscriptable) ==
    LET certs2 == [i \in DOMAIN files |-> i]
        loaded == certs2 # certs
        reassess ==
            IF DOMAIN sess = {} THEN "True"
            ELSE IF ~subscriptable THEN "TypeError"
            ELSE IF \E p \in DOMAIN sess : \E i \in 1..Len(sess[p].chc.dcs) :
                       /\ sess[p].chc.dcs[i].certificate_id # NoCert
                       /\ ~haveCertificate(certs2, sess[p].chc.dcs[i].certificate_id)
            THEN "ConfigError"
            ELSE "True"
    IN  [ret |-> IF reassess # "True" THEN reassess
                 ELSE IF config_changed \/ loaded \/ reassess = "True" THEN "True"
                 ELSE "False",
         certs |-> certs2]

----------------------------------------------------------------------------
(* Configuration file: NginxWebProxy *)

\* The server and location blocks writeConfiguration derives from the store
GenConfig(sess) == [p \in DOMAIN sess |-> sess[p].chc]

\* NginxWebProxy.writeConfiguration: False, and nothing written, when a stored
\* CHC is not an http-pull-ingest one
writeConfiguration(sess, cf) ==
    IF \E p \in DOMAIN sess : sess[p].chc.ingest # "http-pull-ingest"
    THEN [ret |-> "False", conf |-> cf, regen |-> "failed"]
    ELSE [ret |-> "True", conf |-> [exists |-> TRUE, from |-> GenConfig(sess)],
          regen |-> "written"]

\* NginxWebProxy.reload: tidyConfiguration (os.unlink), writeConfiguration,
\* signalDaemon(SIGHUP); nothing at all without a daemon
reload(sess, cf, running) ==
    IF ~running THEN [ret |-> "True", conf |-> cf, regen |-> "none"]
    ELSE IF ~cf.exists THEN [ret |-> "FileNotFoundError", conf |-> cf, regen |-> "none"]
    ELSE writeConfiguration(sess, NoFile)

\* WebProxyInterface.daemonRunning
daemonRunning == proc # 0

----------------------------------------------------------------------------
(* M3 handlers: M3Server.  Each yields the status answered, the store and the *)
(* configuration file it leaves, and whether it goes on to start the daemon.  *)

Answer(status, sess, cf, regen, start) ==
    [status |-> status, sess |-> sess, conf |-> cf, regen |-> regen, start |-> start]

\* Fault variant of create_content_hosting_configuration: no test for an
\* existing configuration
create_content_hosting_configuration_unchecked(sess, certs, cf, running, psid, chc, ctype) ==
    IF ctype # "application/json" THEN Answer(415, sess, cf, "none", FALSE)
    ELSE LET r == addContentHostingConfiguration(sess, certs, psid, chc) IN
         IF r.ret # "None" THEN Answer(500, r.sess, cf, "none", FALSE)
         ELSE IF ~running
         THEN LET w == writeConfiguration(r.sess, cf)
              IN  Answer(201, r.sess, w.conf, w.regen, TRUE)
         ELSE LET l == reload(r.sess, cf, running)
              IN  Answer(IF l.ret = "FileNotFoundError" THEN 500 ELSE 201,
                         r.sess, l.conf, l.regen, FALSE)

\* M3Server.create_content_hosting_configuration
create_content_hosting_configuration(sess, certs, cf, running, psid, chc, ctype) ==
    IF ctype # "application/json" THEN Answer(415, sess, cf, "none", FALSE)
    ELSE IF haveContentHostingConfiguration(sess, psid)
    THEN Answer(405, sess, cf, "none", FALSE)
    ELSE LET r == addContentHostingConfiguration(sess, certs, psid, chc) IN
         IF r.ret # "None" THEN Answer(500, r.sess, cf, "none", FALSE)
         ELSE IF ~running
         THEN LET w == writeConfiguration(r.sess, cf)
              IN  Answer(201, r.sess, w.conf, w.regen, TRUE)
         ELSE LET l == reload(r.sess, cf, running)
              IN  Answer(IF l.ret = "FileNotFoundError" THEN 500 ELSE 201,
                         r.sess, l.conf, l.regen, FALSE)

\* Fault variant of update_content_hosting_configuration: the reload is done
\* from the store as it was before the update
update_content_hosting_configuration_stale(sess, certs, cf, running, psid, chc) ==
    IF ~haveContentHostingConfiguration(sess, psid)
    THEN Answer(404, sess, cf, "none", FALSE)
    ELSE IF sess[psid].chc = chc THEN Answer(204, sess, cf, "none", FALSE)
    ELSE LET r == updateContentHostingConfiguration(sess, certs, psid, chc) IN
         IF r.ret # "True" THEN Answer(500, r.sess, cf, "none", FALSE)
         ELSE LET l == reload(sess, cf, running)
              IN  Answer(IF l.ret = "FileNotFoundError" THEN 500 ELSE 200,
                         r.sess, l.conf, l.regen, FALSE)

\* M3Server.update_content_hosting_configuration
update_content_hosting_configuration(sess, certs, cf, running, psid, chc) ==
    IF ~haveContentHostingConfiguration(sess, psid)
    THEN Answer(404, sess, cf, "none", FALSE)
    ELSE IF sess[psid].chc = chc THEN Answer(204, sess, cf, "none", FALSE)
    ELSE LET r == updateContentHostingConfiguration(sess, certs, psid, chc) IN
         IF r.ret # "True" THEN Answer(500, r.sess, cf, "none", FALSE)
         ELSE LET l == reload(r.sess, cf, running)
              IN  Answer(IF l.ret = "FileNotFoundError" THEN 500 ELSE 200,
                         r.sess, l.conf, l.regen, FALSE)

\* M3Server.destroy_content_hosting_configuration, up to the await of purgeAll
destroy_content_hosting_configuration(sess, cf, psid) ==
    IF ~haveContentHostingConfiguration(sess, psid)
    THEN Answer(404, sess, cf, "none", FALSE)
    ELSE Answer(0, deleteContentHostingConfiguration(sess, psid).sess, cf, "none", FALSE)

\* M3Server.destroy_content_hosting_configuration, from the return of purgeAll
destroy_content_hosting_configuration_reload(sess, cf, running) ==
    LET l == reload(sess, cf, running)
    IN  Answer(IF l.ret = "FileNotFoundError" THEN 500 ELSE 204,
               sess, l.conf, l.regen, FALSE)

CertAnswer(status, certs, files, cf, regen) ==
    [status |-> status, certs |-> certs, files |-> files, conf |-> cf, regen |-> regen]

\* M3Server.create_server_certificate
create_server_certificate(certs, files, cf, id, pem, ctype) ==
    IF ctype # "application/x-pem-file" THEN CertAnswer(415, certs, files, cf, "none")
    ELSE IF haveCertificate(certs, id) THEN CertAnswer(405, certs, files, cf, "none")
    ELSE LET r == addCertificate(certs, files, id, pem, TRUE)
         IN  CertAnswer(201, r.certs, r.files, cf, "none")

\* M3Server.update_server_certificate
update_server_certificate(sess, certs, files, cf, running, id, pem) ==
    IF ~haveCertificate(certs, id) THEN CertAnswer(404, certs, files, cf, "none")
    ELSE LET r == addCertificate(certs, files, id, pem, FALSE) IN
         IF r.ret = "False" THEN CertAnswer(204, r.certs, r.files, cf, "none")
         ELSE LET l == reload(sess, cf, running)
              IN  CertAnswer(IF l.ret = "FileNotFoundError" THEN 500 ELSE 200,
                             r.certs, r.files, l.conf, l.regen)

\* M3Server.destroy_server_certificate
destroy_server_certificate(sess, certs, files, cf, id) ==
    IF ~haveCertificate(certs, id) THEN CertAnswer(404, certs, files, cf, "none")
    ELSE LET r == delCertificate(sess, certs, files, id) IN
         CertAnswer(CASE r.ret = "ConfigError" -> 409
                      [] r.ret = "FileNotFoundError" -> 500
                      [] OTHER -> 204,
                    r.certs, r.files, cf, "none")

----------------------------------------------------------------------------
(* Server blocks: NginxLocationConfig and NginxServerConfig *)

\* regex.compile(re).groups for an expression given character by character,
\* -1 when regex.compile raises regex.error: a backslash takes the next
\* character, a bracket expression runs to "]", "(?" opens a group that does
\* not capture
RECURSIVE compiled_groups(_, _, _, _)
compiled_groups(re, inclass, depth, n) ==
    IF re = <<>> THEN (IF inclass \/ depth # 0 THEN -1 ELSE n)
    ELSE IF re[1] = "\\"
    THEN (IF Len(re) = 1 THEN -1
          ELSE compiled_groups(SubSeq(re, 3, Len(re)), inclass, depth, n))
    ELSE IF inclass THEN compiled_groups(Tail(re), re[1] # "]", depth, n)
    ELSE IF re[1] = "[" THEN compiled_groups(Tail(re), TRUE, depth, n)
    ELSE IF re[1] = "("
    THEN compiled_groups(Tail(re), FALSE, depth + 1,
                         IF Len(re) >= 2 /\ re[2] = "?" THEN n ELSE n + 1)
    ELSE IF re[1] = ")"
    THEN (IF depth = 0 THEN -1 ELSE compiled_groups(Tail(re), FALSE, depth - 1, n))
    ELSE compiled_groups(Tail(re), FALSE, depth, n)

\* Fault variant of __transform_rewrite_rules: no group for the directories
\* that follow an expression without "$"
transform_rewrite_rules_no_dirs(rule_regex, replace) ==
    LET brackets == compiled_groups(rule_regex, FALSE, 0, 0)
    IN  IF brackets < 0 THEN [ret |-> "None", regex |-> <<>>, replace |-> <<>>]
        ELSE IF rule_regex = <<>> THEN [ret |-> "IndexError", regex |-> <<>>, replace |-> <<>>]
        ELSE
          LET open == rule_regex[1] # "^"
              r1 == IF open THEN <<"^", "(", ".", "*", ")">> \o rule_regex ELSE rule_regex
              p1 == IF open THEN <<[ref |-> 1, lit |-> ""]>> \o replace ELSE replace
              b1 == IF open THEN brackets + 1 ELSE brackets
              loose == r1[Len(r1)] # "$"
              r2 == IF loose THEN r1 ELSE SubSeq(r1, 1, Len(r1) - 1)
              p2 == p1
              b2 == b1
          IN  [ret |-> "ok",
               regex |-> r2 \o <<"(", "[", "^", "/", "]", "*", "(", "?", ":", "#", "[", "^", "?", "/", "]", "*", ")", "?",
                         "(", "?", ":", "\\", "?", ".", "*", ")", "?", ")", "$">>,
               replace |-> p2 \o <<[ref |-> b2 + 1, lit |-> ""]>>]

\* NginxLocationConfig.__transform_rewrite_rules: the expression and the
\* replacement for nginx, or (None, None), or the exception raised.  A
\* replacement is a list of pieces, each a literal or a back-reference $ref.
transform_rewrite_rules(rule_regex, replace) ==
    LET brackets == compiled_groups(rule_regex, FALSE, 0, 0)
    IN  IF brackets < 0 THEN [ret |-> "None", regex |-> <<>>, replace |-> <<>>]
        ELSE IF rule_regex = <<>> THEN [ret |-> "IndexError", regex |-> <<>>, replace |-> <<>>]
        ELSE
          LET open == rule_regex[1] # "^"
              r1 == IF open THEN <<"^", "(", ".", "*", ")">> \o rule_regex ELSE rule_regex
              p1 == IF open THEN <<[ref |-> 1, lit |-> ""]>> \o replace ELSE replace
              b1 == IF open THEN brackets + 1 ELSE brackets
              loose == r1[Len(r1)] # "$"
              r2 == IF loose
                   THEN r1 \o <<"(", "[", "^", "?", "#", "]", "*", "/", ")", "?">>
                   ELSE SubSeq(r1, 1, Len(r1) - 1)
              p2 == IF loose THEN p1 \o <<[ref |-> b1 + 1, lit |-> ""]>> ELSE p1
              b2 == IF loose THEN b1 + 1 ELSE b1
          IN  [ret |-> "ok",
               regex |-> r2 \o <<"(", "[", "^", "/", "]", "*", "(", "?", ":", "#", "[", "^", "?", "/", "]", "*", ")", "?",
                         "(", "?", ":", "\\", "?", ".", "*", ")", "?", ")", "$">>,
               replace |-> p2 \o <<[ref |-> b2 + 1, lit |-> ""]>>]

\* NginxLocationConfig.__eq__
location_eq(self, other) ==
    /\ self.path_prefix = other.path_prefix
    /\ Len(self.rewrite_rules) = Len(other.rewrite_rules)
    /\ \A i \in 1..Len(self.rewrite_rules) :
           \E j \in 1..Len(other.rewrite_rules) :
               other.rewrite_rules[j] = self.rewrite_rules[i]

\* "a in locations": list.__contains__ compares each item of the list, on
\* the left of ==, with a
location_in(a, locations) ==
    \E j \in 1..Len(locations) : location_eq(locations[j], a)

\* NginxServerConfig.sameLocations
sameLocations(self, other) ==
    /\ Len(self.locations) = Len(other.locations)
    /\ \A i \in 1..Len(self.locations) : location_in(self.locations[i], other.locations)

\* NginxServerConfig.mergeServer: what it returns and what self is afterwards
\* (other is never changed)
mergeServer(self, other) ==
    IF self.use_cache # other.use_cache THEN [ret |-> "False", self |-> self]
    ELSE IF self.certificate_file = NoCert /\ other.certificate_file # NoCert
    THEN [ret |-> "False", self |-> self]
    ELSE IF self.certificate_file # NoCert /\ other.certificate_file = NoCert
    THEN [ret |-> "False", self |-> self]
    ELSE IF self.certificate_file # NoCert /\ other.certificate_file # self.certificate_file
    THEN [ret |-> "False", self |-> self]
    ELSE IF self.port # other.port THEN [ret |-> "False", self |-> self]
    ELSE IF ~sameLocations(self, other) THEN [ret |-> "False", self |-> self]
    ELSE [ret |-> "True",
          self |-> [self EXCEPT !.hostnames = self.hostnames \cup other.hostnames]]

\* NginxServerConfig.__init__: the port follows from the certificate
NginxServerConfig(hostnames, use_cache, certfile, locations) ==
    [hostnames |-> hostnames, certificate_file |-> certfile,
     port |-> IF certfile # NoCert THEN "https_port" ELSE "http_port",
     locations |-> locations, use_cache |-> use_cache]

\* m4d_path_prefix in writeConfiguration, from the path of urlparse(dc.base_url)
\* given as its "/" and the names between them: "/" is put before a path
\* that does not begin with one and after a path that does not end with one.
\* The test of m4d_path_prefix[0] raises IndexError for the empty path.
m4d_path_prefix(path) ==
    IF path = <<>> THEN [ret |-> "IndexError", path |-> <<>>]
    ELSE LET p1 == IF path[1] # "/" THEN <<"/">> \o path ELSE path
         IN  [ret |-> "ok",
              path |-> IF p1[Len(p1)] # "/" THEN Append(p1, "/") ELSE p1]

\* The loop over the distribution configurations in writeConfiguration, on a
\* dict given as a list of (key, svr) entries.  The keys are pairs, so the test
\* "dc.domain_name_alias not in server_configs", made with the bare name, is
\* always true; an assignment to a key the dict has keeps the key's place.
RECURSIVE build_server_configs(_, _, _)
build_server_configs(dcs, use_cache, configs) ==
    IF dcs = <<>> THEN configs
    ELSE
      LET dc == Head(dcs)
          certificate_filename == dc.certificate_filename
          sk == <<dc.canonical_domain_name, certificate_filename>>
          ak == <<dc.domain_name_alias,
                  IF certificate_filename # NoCert THEN "True" ELSE "False">>
          has(cs, k) == \E i \in 1..Len(cs) : cs[i].key = k
          set(cs, k, v) ==
              IF has(cs, k)
              THEN [i \in 1..Len(cs) |->
                       IF cs[i].key = k THEN [key |-> k, svr |-> v] ELSE cs[i]]
              ELSE Append(cs, [key |-> k, svr |-> v])
          addLocation(cs, k, locn) ==
              [i \in 1..Len(cs) |->
                  IF cs[i].key = k
                  THEN [cs[i] EXCEPT !.svr.locations = Append(@, locn)]
                  ELSE cs[i]]
          locn == [path_prefix |-> dc.path_prefix, rewrite_rules |-> <<>>,
                   downstream_prefix_url |-> dc.downstream_origin,
                   provisioning_session |-> dc.provisioning_session_id]
          c1 == IF has(configs, sk) THEN configs
                ELSE set(configs, sk, NginxServerConfig({dc.canonical_domain_name},
                                          use_cache, certificate_filename, <<>>))
          c2 == IF dc.domain_name_alias # "None"
                THEN set(c1, ak, NginxServerConfig({dc.domain_name_alias},
                                     use_cache, certificate_filename, <<>>))
                ELSE c1
          c3 == addLocation(c2, sk, locn)
          c4 == IF dc.domain_name_alias # "None" THEN addLocation(c3, ak, locn) ELSE c3
      IN  build_server_configs(Tail(dcs), use_cache, c4)

\* del server_configs[keys[j]]
DelEntry(configs, j) ==
    [k \in 1..(Len(configs) - 1) |-> IF k < j THEN configs[k] ELSE configs[k + 1]]

\* the merge loops of writeConfiguration have ended
MergeDone == <<0, 0>>

\* Fault variant of merge_next: the loops end with the first merge
merge_next_single_pass(i, j, n, merged) ==
    IF merged THEN MergeDone
    ELSE IF j < n THEN <<i, j + 1>>
    ELSE IF i + 1 < n THEN <<i + 1, i + 2>>
    ELSE MergeDone

\* where the merge loops go, over n entries: after a merge the while loop starts
\* its next pass, after a refusal at (i, j) the for loops step on
merge_next(i, j, n, merged) ==
    IF merged THEN (IF n >= 2 THEN <<1, 2>> ELSE MergeDone)
    ELSE IF j < n THEN <<i, j + 1>>
    ELSE IF i + 1 < n THEN <<i + 1, i + 2>>
    ELSE MergeDone

----------------------------------------------------------------------------
(* Daemon management: WebProxyInterface *)

RapidRestartSecs == 10   \* WebProxyInterface.__rapidRestartSecs
RapidStartLimit == 5     \* the count __app compares rapidStarts() with

\* Fault variant of __trimDaemonStartTimes: "t >= cutoff", an entry exactly
\* RapidRestartSecs old is kept
trimDaemonStartTimes_keeps_cutoff(times, t) ==
    SelectSeq(times, LAMBDA x : x >= t - RapidRestartSecs)

\* WebProxyInterface.__trimDaemonStartTimes
trimDaemonStartTimes(times, t) ==
    SelectSeq(times, LAMBDA x : x > t - RapidRestartSecs)

\* WebProxyInterface.__addDaemonStartTime
addDaemonStartTime(times, t) == Append(trimDaemonStartTimes(times, t), t)

\* WebProxyInterface.rapidStarts (the trimmed list is also stored back)
rapidStarts(times, t) == Len(trimDaemonStartTimes(times, t))

\* Fault variant of the CancelledError branch of _wait: the child is
\* terminated and the handle dropped
wait_cancelled_kills(wt, p) ==
    [wait_task |-> IF wt = "cancelling" THEN "false" ELSE "cancelled",
     proc |-> 0, term |-> {p}]

\* WebProxyInterface._wait, CancelledError branch: the wait is given up, the
\* handle is kept and the child is sent nothing.  A task cancelled before its
\* first step never enters _wait and ends cancelled.
wait_cancelled(wt, p) ==
    [wait_task |-> IF wt = "cancelling" THEN "false" ELSE "cancelled",
     proc |-> p, term |-> {}]

\* WebProxyInterface._wait, normal completion
wait_completed(p) == [wait_task |-> "true", proc |-> 0]

----------------------------------------------------------------------------
(* Proxy cache: the cache keys nginx writes and the purge engine that reads   *)
(* them back.  A string is the sequence of its pieces, the separator ":u="    *)
(* being one piece.                                                           *)

KeySep == ":u="

\* NginxLocationConfig.config: the proxy_cache_key directive of the location
\* made for a distribution configuration of provisioning session psid
proxy_cache_key(psid) == <<psid, KeySep, "$uri">>

\* NginxLocationConfig.config: the lines of the location block, each the
\* directive and its arguments.  The line of a rewrite rule is the format
\* string itself, "%s" standing where the expression and the replacement
\* would go: no value is applied to it.
location_config(self) ==
    <<[directive |-> "location", args |-> <<"~", "^", self.path_prefix>>]>>
    \o [k \in 1..Len(self.rewrite_rules) |->
           [directive |-> "rewrite",
            args |-> <<<<"%", "s">>, <<[ref |-> 0, lit |-> "%s"]>>, "break">>]]
    \o <<[directive |-> "proxy_cache_key",
          args |-> <<proxy_cache_key(self.provisioning_session)>>],
         [directive |-> "proxy_pass", args |-> <<self.downstream_prefix_url>>]>>

\* the key nginx derives from that directive for a request: $uri replaced by
\* the path of the request
RECURSIVE cache_key(_, _)
cache_key(directive, uri) ==
    IF directive = <<>> THEN <<>>
    ELSE (IF Head(directive) = "$uri" THEN uri ELSE <<Head(directive)>>)
         \o cache_key(Tail(directive), uri)

\* a file of the cache directory: its "KEY: " header line, if it has one
CacheFile(key) == [has_key |-> TRUE, key |-> key]
ForeignFile == [has_key |-> FALSE, key |-> <<>>]

\* str.split(':u='): the pieces between the separators
RECURSIVE split(_)
split(str) ==
    IF \A i \in 1..Len(str) : str[i] # KeySep THEN <<str>>
    ELSE LET i == CHOOSE k \in 1..Len(str) :
                      /\ str[k] = KeySep
                      /\ \A j \in 1..(k - 1) : str[j] # KeySep
         IN  <<SubSeq(str, 1, i - 1)>> \o split(SubSeq(str, i + 1, Len(str)))

\* NginxWebProxy.__key_to_prov_sess_and_url_path
key_to_prov_sess_and_url_path(key) == split(key)

\* NginxWebProxy.__cache_entry_from_filename gives an entry: the file has a KEY
\* line and the key unpacks into exactly (prov_sess, urlpath); anything else
\* raises, is logged and gives None
cache_entry_from_filename(f) ==
    f.has_key /\ Len(key_to_prov_sess_and_url_path(f.key)) = 2

entry_psid(f) == key_to_prov_sess_and_url_path(f.key)[1]
entry_urlpath(f) == key_to_prov_sess_and_url_path(f.key)[2]

\* NginxWebProxy._getCacheFilesAndKeys / __add_cache_entry: the files of the
\* directory that give an entry
getCacheFilesAndKeys(dir) == {f \in dir : cache_entry_from_filename(f)}

\* A purge request: no pattern, or a regular expression.  An expression is a
\* sequence of pieces, "." standing for any one piece; "(" does not compile.
NoPattern == [present |-> FALSE, re |-> <<>>]
Pattern(re) == [present |-> TRUE, re |-> re]

\* regex.compile succeeds
regex_compile(re) == \A i \in 1..Len(re) : re[i] # "("

\* comp_regex.match(path) is not None: the expression matches at the start
regex_match(re, path) ==
    /\ Len(re) <= Len(path)
    /\ \A i \in 1..Len(re) : re[i] = "." \/ re[i] = path[i]

\* Fault variant of the key_filter lambdas: the provisioning session of the
\* entry is not compared
key_filter_any_session(psid, pattern, f) ==
    pattern.present => regex_match(pattern.re, entry_urlpath(f))

\* the key_filter lambdas of purgeAll and purgeUsingRegex
key_filter(psid, pattern, f) ==
    /\ entry_psid(f) = <<psid>>
    /\ pattern.present => regex_match(pattern.re, entry_urlpath(f))

NoJob == [caller |-> "none", psid |-> "None", pattern |-> NoPattern,
          began |-> {}, to_purge |-> {}]

\* purgeAll / purgeUsingRegex and _purge as far as its list of matching
\* entries: False for an expression that does not compile, True when nothing
\* matches, otherwise the files to delete
purge_begin(dir, psid, pattern) ==
    IF pattern.present /\ ~regex_compile(pattern.re)
    THEN [ret |-> "False", to_purge |-> {}]
    ELSE LET to_purge == {f \in getCacheFilesAndKeys(dir) : key_filter(psid, pattern, f)}
         IN  [ret |-> IF to_purge = {} THEN "True" ELSE "Pending", to_purge |-> to_purge]

\* Fault variant of a step of _purgeCacheFiles: the file is taken off the list
\* and left in the directory
purgeCacheFiles_step_keep(dir, to_purge, f, running) ==
    [ret |-> IF to_purge = {f} THEN "True" ELSE "Pending",
     dir |-> dir, to_purge |-> to_purge \ {f},
     sighups |-> IF to_purge = {f} /\ running THEN 1 ELSE 0]

\* One step of _purgeCacheFiles and, after the last file, _postPurgeActions:
\* aiofiles.os.remove(f) raises for a file that has gone, which _purge catches
\* and turns into False; after the last removal the child is sent SIGHUP
purgeCacheFiles_step(dir, to_purge, f, running) ==
    IF f \notin dir
    THEN [ret |-> "False", dir |-> dir, to_purge |-> {}, sighups |-> 0]
    ELSE [ret |-> IF to_purge = {f} THEN "True" ELSE "Pending",
          dir |-> dir \ {f}, to_purge |-> to_purge \ {f},
          sighups |-> IF to_purge = {f} /\ running THEN 1 ELSE 0]

\* M3Server.purge_content_hosting_cache: the status answered for what the
\* purge returned or raised
purge_status(ret) ==
    CASE ret = "regex.error" -> 422
      [] ret = "True" -> 204
      [] OTHER -> 200

PurgeCType == "application/x-www-form-urlencoded"

----------------------------------------------------------------------------
(* Supervisor: __app *)

MaxSpawns == 6       \* child processes created in one run
MaxTicks == 2        \* clock advances in one run
TickSecs == 5        \* seconds per clock advance
MaxSetCalls == 2     \* exit signals delivered in one run
MaxInflight == 1     \* handlers suspended at the same await

ExitSignals == {"SIGINT", "SIGQUIT"}
StartResults == {"True", "False"}
LoopPcs == {"loop", "restart_stopping", "restarting"}
WaitDone == {"true", "false", "cancelled"}

\* Future.set_result: InvalidStateError when the future already has a result
set_result(fut, value) ==
    IF fut = "Pending" THEN [fut |-> value, raised |-> FALSE]
    ELSE [fut |-> fut, raised |-> TRUE]

\* Fault variant of the test of rapidStarts(): one more start is let through
tooRapid_lenient(n) == n > RapidStartLimit + 1

\* the test of rapidStarts() in the main loop
tooRapid(n) == n > RapidStartLimit

\* Fault variant of the main loop: every child exit is fatal
loop_branch_fatal(wt_done, m3_done, exit_done, n) ==
    IF wt_done
    THEN (IF exit_done /\ ~tooRapid(n) THEN "pass" ELSE "abort")
    ELSE IF m3_done THEN "abort"
    ELSE "pass"

\* The branch one iteration of the main loop takes
loop_branch(wt_done, m3_done, exit_done, n) ==
    IF wt_done
    THEN (IF tooRapid(n) THEN "abort"
          ELSE IF exit_done THEN "pass"
          ELSE "restart")
    ELSE IF m3_done THEN "abort"
    ELSE "pass"

\* __app from stopDaemon on: SIGTERM to a running child and the wait for it,
\* or straight on to tidyConfiguration and the return of the exit code
teardown_stop(p, cf, code) ==
    IF p # 0
    THEN [pc |-> "stopping", term |-> {p}, conf |-> cf, retcode |-> "NotExited"]
    ELSE IF ~cf.exists
    THEN [pc |-> "done", term |-> {}, conf |-> cf, retcode |-> "Raised"]
    ELSE [pc |-> "done", term |-> {}, conf |-> NoFile, retcode |-> code]

\* __app on leaving the main loop: cancel an unfinished wait task and await
\* it, otherwise go on to stop the daemon
teardown(wt, p, cf, code) ==
    IF wt \notin WaitDone
    THEN [pc |-> "cancelling", term |-> {}, conf |-> cf, retcode |-> "NotExited",
          wait_task |-> IF wt = "created" THEN "unstarted_cancelling" ELSE "cancelling"]
    ELSE [pc |-> teardown_stop(p, cf, code).pc, term |-> teardown_stop(p, cf, code).term,
          conf |-> teardown_stop(p, cf, code).conf,
          retcode |-> teardown_stop(p, cf, code).retcode, wait_task |-> wt]

m3Vars == <<purging, m3_starting, resp>>

\* __app up to the first await that suspends: writeConfiguration, then
\* startDaemon as far as create_subprocess_exec
AppStartup ==
    /\ pc = "startup" /\ retcode = "NotExited"
    /\ LET w == writeConfiguration(provisioning_sessions, conf) IN
         /\ conf' = w.conf
         /\ IF w.ret = "True"
            THEN pc' = "first_start" /\ retcode' = retcode
            ELSE pc' = "done" /\ retcode' = "1"
    /\ UNCHANGED <<storeVars, m3Vars, proxyVars, ngxVars, daemonVars, now, app_exit, set_calls,
                   wait_task, wait_on, m3_serve_task, loop_sigs>>

\* The first startDaemon returns; the two tasks are created and the main loop
\* is entered, or skipped when an exit signal came in meanwhile
AppFirstStartDone(res) ==
    /\ pc = "first_start" /\ retcode = "NotExited"
    /\ IF res = "False"
       THEN /\ pc' = "done" /\ retcode' = "1"
            /\ UNCHANGED <<daemonVars, wait_task, wait_on, m3_serve_task>>
       ELSE /\ spawned < MaxSpawns
            /\ spawned' = spawned + 1
            /\ proc' = spawned + 1
            /\ alive' = alive \cup {spawned + 1}
            /\ start_times' = addDaemonStartTime(start_times, now)
            /\ m3_serve_task' = "running"
            /\ signalled' = signalled
            /\ retcode' = retcode
            /\ IF app_exit = "Pending"
               THEN pc' = "loop" /\ wait_task' = "waiting" /\ wait_on' = spawned + 1
               ELSE /\ pc' = teardown("created", spawned + 1, conf, app_exit).pc
                    /\ wait_task' = teardown("created", spawned + 1, conf, app_exit).wait_task
                    /\ wait_on' = wait_on
    /\ UNCHANGED <<storeVars, m3Vars, proxyVars, ngxVars, conf, now, app_exit, set_calls, loop_sigs>>

\* A child process exits: killed from outside, crashed, or obeying SIGTERM
ChildExits(c) ==
    /\ retcode = "NotExited"
    /\ c \in alive
    /\ alive' = alive \ {c}
    /\ UNCHANGED <<storeVars, m3Vars, proxyVars, ngxVars, conf, proc, start_times, spawned, signalled, appVars>>

\* The Proxy-monitor task sees its child gone: _wait returns True
WaitTaskDone ==
    /\ retcode = "NotExited"
    /\ wait_task = "waiting" /\ wait_on \notin alive
    /\ wait_task' = wait_completed(proc).wait_task
    /\ proc' = wait_completed(proc).proc
    /\ UNCHANGED <<storeVars, m3Vars, proxyVars, ngxVars, conf, start_times, alive, spawned, signalled,
                   now, pc, app_exit, set_calls, wait_on, m3_serve_task, loop_sigs, retcode>>

\* The cancellation asked for by __app reaches the Proxy-monitor task
WaitTaskCancelled ==
    /\ retcode = "NotExited"
    /\ wait_task \in {"cancelling", "unstarted_cancelling"}
    /\ wait_task' = wait_cancelled(wait_task, proc).wait_task
    /\ proc' = wait_cancelled(wait_task, proc).proc
    /\ signalled' = signalled \cup wait_cancelled(wait_task, proc).term
    /\ alive' = alive \ wait_cancelled(wait_task, proc).term
    /\ UNCHANGED <<storeVars, m3Vars, proxyVars, ngxVars, conf, start_times, spawned,
                   now, pc, app_exit, set_calls, wait_on, m3_serve_task, loop_sigs, retcode>>

\* exit_handler, run by the event loop for SIGINT and SIGQUIT
ExitSignal(sig) ==
    /\ retcode = "NotExited"
    /\ pc # "startup"
    /\ set_calls < MaxSetCalls
    /\ app_exit' = set_result(app_exit, "0").fut
    /\ set_calls' = set_calls + 1
    /\ loop_sigs' = IF pc \in LoopPcs THEN loop_sigs \cup {sig} ELSE loop_sigs
    /\ UNCHANGED <<storeVars, m3Vars, proxyVars, ngxVars, conf, daemonVars, now, pc, wait_task, wait_on,
                   m3_serve_task, retcode>>

\* SIGTERM: __app installs no handler for it, the default action ends the process
SigTerm ==
    /\ retcode = "NotExited"
    /\ retcode' = "Killed"
    /\ loop_sigs' = IF pc \in LoopPcs THEN loop_sigs \cup {"SIGTERM"} ELSE loop_sigs
    /\ UNCHANGED <<storeVars, m3Vars, proxyVars, ngxVars, conf, daemonVars, now, pc, app_exit, set_calls,
                   wait_task, wait_on, m3_serve_task>>

\* hypercorn's serve() returns on its own
M3ServerExits ==
    /\ retcode = "NotExited"
    /\ m3_serve_task = "running"
    /\ m3_serve_task' = IF pc \in LoopPcs THEN "done" ELSE "done_late"
    /\ UNCHANGED <<storeVars, m3Vars, proxyVars, ngxVars, conf, daemonVars, now, pc, app_exit, set_calls,
                   wait_task, wait_on, loop_sigs, retcode>>

\* asyncio.wait returns in the main loop: one iteration, and the teardown up to
\* its first await when the loop ends
MainLoopWake ==
    /\ pc = "loop" /\ retcode = "NotExited"
    /\ \/ app_exit # "Pending"
       \/ wait_task \in WaitDone
       \/ m3_serve_task = "done"
    /\ LET n == rapidStarts(start_times, now)
           b == loop_branch(wait_task \in WaitDone, m3_serve_task = "done",
                            app_exit # "Pending", n)
           s == IF b = "abort" THEN set_result(app_exit, "1")
                ELSE [fut |-> app_exit, raised |-> FALSE]
           t == teardown(wait_task, proc, conf, s.fut)
       IN
         /\ start_times' = IF wait_task \in WaitDone
                           THEN trimDaemonStartTimes(start_times, now)
                           ELSE start_times
         /\ set_calls' = IF b = "abort" THEN set_calls + 1 ELSE set_calls
         /\ app_exit' = s.fut
         /\ IF b = "restart"
            THEN \* _startDaemon(restart=True) first stops a daemon it finds running
                 /\ pc' = IF proc # 0 THEN "restart_stopping" ELSE "restarting"
                 /\ signalled' = IF proc # 0 THEN signalled \cup {proc} ELSE signalled
                 /\ wait_on' = IF proc # 0 THEN proc ELSE wait_on
                 /\ UNCHANGED <<conf, retcode, wait_task, m3_serve_task>>
            ELSE IF s.raised
            THEN /\ pc' = "done" /\ retcode' = "Raised"
                 /\ UNCHANGED <<conf, signalled, wait_task, m3_serve_task, wait_on>>
            ELSE /\ pc' = t.pc
                 /\ conf' = t.conf
                 /\ signalled' = signalled \cup t.term
                 /\ retcode' = t.retcode
                 /\ wait_task' = t.wait_task
                 /\ m3_serve_task' = IF t.pc # "cancelling" /\ m3_serve_task = "running"
                                     THEN "cancelled" ELSE m3_serve_task
                 /\ wait_on' = wait_on
    /\ UNCHANGED <<storeVars, m3Vars, proxyVars, ngxVars, proc, alive, spawned, now, loop_sigs>>

\* stopDaemon, called by _startDaemon in the main loop, sees the child it
\* terminated gone: the handle is dropped and the new child is asked for
AppRestartStopped ==
    /\ pc = "restart_stopping" /\ retcode = "NotExited"
    /\ wait_on \notin alive
    /\ proc' = 0
    /\ pc' = "restarting"
    /\ UNCHANGED <<storeVars, m3Vars, proxyVars, ngxVars, conf, start_times, alive, spawned,
                   signalled, now, app_exit, set_calls, wait_task, wait_on, m3_serve_task,
                   loop_sigs, retcode>>

\* startDaemon returns in the main loop
AppRestartDone(res) ==
    /\ pc = "restarting" /\ retcode = "NotExited"
    /\ IF res = "False"
       THEN LET s == set_result(app_exit, "1")
                t == teardown(wait_task, proc, conf, s.fut)
            IN  /\ set_calls' = set_calls + 1
                /\ app_exit' = s.fut
                /\ IF s.raised
                   THEN /\ pc' = "done" /\ retcode' = "Raised"
                        /\ UNCHANGED <<conf, signalled, wait_task, m3_serve_task>>
                   ELSE /\ pc' = t.pc
                        /\ conf' = t.conf
                        /\ signalled' = signalled \cup t.term
                        /\ retcode' = t.retcode
                        /\ wait_task' = t.wait_task
                        /\ m3_serve_task' = IF t.pc # "cancelling" /\ m3_serve_task = "running"
                                            THEN "cancelled" ELSE m3_serve_task
                /\ UNCHANGED <<proc, start_times, alive, spawned, wait_on>>
       ELSE /\ spawned < MaxSpawns
            /\ spawned' = spawned + 1
            /\ proc' = spawned + 1
            /\ alive' = alive \cup {spawned + 1}
            /\ start_times' = addDaemonStartTime(start_times, now)
            /\ IF app_exit = "Pending"
               THEN pc' = "loop" /\ wait_task' = "waiting" /\ wait_on' = spawned + 1
               ELSE /\ pc' = teardown("created", spawned + 1, conf, app_exit).pc
                    /\ wait_task' = teardown("created", spawned + 1, conf, app_exit).wait_task
                    /\ wait_on' = wait_on
            /\ UNCHANGED <<conf, signalled, retcode, app_exit, set_calls, m3_serve_task>>
    /\ UNCHANGED <<storeVars, m3Vars, proxyVars, ngxVars, now, loop_sigs>>

\* The awaited wait task has finished: cancel the M3 server task, then
\* stopDaemon up to its wait, or on to the end
AppTeardownStop ==
    /\ pc = "cancelling" /\ retcode = "NotExited"
    /\ wait_task \in WaitDone
    /\ LET t == teardown_stop(proc, conf, app_exit) IN
         /\ pc' = t.pc
         /\ conf' = t.conf
         /\ signalled' = signalled \cup t.term
         /\ retcode' = t.retcode
    /\ m3_serve_task' = IF m3_serve_task = "running" THEN "cancelled" ELSE m3_serve_task
    /\ UNCHANGED <<storeVars, m3Vars, proxyVars, ngxVars, proc, start_times, alive, spawned, now,
                   app_exit, set_calls, wait_task, wait_on, loop_sigs>>

\* stopDaemon's wait ends: the handle is dropped, the configuration is deleted
\* and __app returns the result of app_exit
AppStopDone ==
    /\ pc = "stopping" /\ retcode = "NotExited"
    /\ proc \notin alive
    /\ proc' = 0
    /\ LET t == teardown_stop(0, conf, app_exit) IN
         /\ pc' = t.pc
         /\ conf' = t.conf
         /\ retcode' = t.retcode
    /\ UNCHANGED <<storeVars, m3Vars, proxyVars, ngxVars, start_times, alive, spawned, signalled, now,
                   app_exit, set_calls, wait_task, wait_on, m3_serve_task, loop_sigs>>

\* time.monotonic_ns() moves on
Tick ==
    /\ retcode = "NotExited"
    /\ now < MaxTicks * TickSecs
    /\ now' = now + TickSecs
    /\ UNCHANGED <<storeVars, m3Vars, proxyVars, ngxVars, conf, daemonVars, pc, app_exit, set_calls,
                   wait_task, wait_on, m3_serve_task, loop_sigs, retcode>>

----------------------------------------------------------------------------
(* Requests on the M3 interface: M3Server handlers run against the store *)

CTypes == {"application/json", "application/x-pem-file"}

\* What the last handler step answered (0 while the handler is suspended) and
\* what it did to the configuration file
Resp(status, regen) == [status |-> status, regen |-> regen]

\* the SIGHUP reload() sends once it has written the configuration
reloadSighups(running, regen) == IF running /\ regen = "written" THEN 1 ELSE 0

\* last_ret when the step made no call of its own on the store or the proxy
NoCall == "NoCall"

\* POST /content-hosting-configurations/{psid}; with no daemon the handler
\* goes on into startDaemon
M3CreateCHC(psid, chc, ctype) ==
    LET a == create_content_hosting_configuration(provisioning_sessions, certificates,
                                                  conf, daemonRunning, psid, chc, ctype)
    IN  /\ a.start => m3_starting < MaxInflight
        /\ provisioning_sessions' = a.sess
        /\ conf' = a.conf
        /\ m3_starting' = IF a.start THEN m3_starting + 1 ELSE m3_starting
        /\ resp' = Resp(IF a.start THEN 0 ELSE a.status, a.regen)
        /\ sighups' = reloadSighups(daemonRunning, a.regen)
        /\ last_ret' = NoCall
        /\ UNCHANGED <<certificates, cert_files, purging, cache, purge_job,
                       daemonVars, appVars, ngxVars>>

\* startDaemon returns in the POST handler, which answers 201 whatever it says
M3StartDaemonDone(res) ==
    /\ m3_starting > 0
    /\ m3_starting' = m3_starting - 1
    /\ IF res = "False"
       THEN UNCHANGED daemonVars
       ELSE /\ spawned < MaxSpawns
            /\ spawned' = spawned + 1
            /\ proc' = spawned + 1
            /\ alive' = alive \cup {spawned + 1}
            /\ start_times' = addDaemonStartTime(start_times, now)
            /\ signalled' = signalled
    /\ resp' = Resp(201, "none")
    /\ sighups' = 0
    /\ last_ret' = NoCall
    /\ UNCHANGED <<storeVars, conf, purging, cache, purge_job, appVars, ngxVars>>

\* PUT /content-hosting-configurations/{psid}
M3UpdateCHC(psid, chc) ==
    LET a == update_content_hosting_configuration(provisioning_sessions, certificates,
                                                  conf, daemonRunning, psid, chc)
    IN  /\ provisioning_sessions' = a.sess
        /\ conf' = a.conf
        /\ resp' = Resp(a.status, a.regen)
        /\ sighups' = reloadSighups(daemonRunning, a.regen)
        /\ last_ret' = NoCall
        /\ UNCHANGED <<certificates, cert_files, purging, m3_starting, cache, purge_job,
                       daemonVars, appVars, ngxVars>>

\* DELETE /content-hosting-configurations/{psid}, as far as the list of
\* matching cache entries in purgeAll
M3DeleteCHC(psid) ==
    LET a == destroy_content_hosting_configuration(provisioning_sessions, conf, psid)
        b == purge_begin(cache, psid, NoPattern)
        deleting == a.status = 0 /\ b.ret = "Pending"
    IN  /\ purging < MaxInflight
        /\ deleting => purge_job = NoJob
        /\ provisioning_sessions' = a.sess
        /\ conf' = a.conf
        /\ purging' = IF a.status = 0 /\ ~deleting THEN purging + 1 ELSE purging
        /\ purge_job' = IF deleting
                        THEN [caller |-> "destroy", psid |-> psid, pattern |-> NoPattern,
                              began |-> cache, to_purge |-> b.to_purge]
                        ELSE purge_job
        /\ resp' = Resp(a.status, a.regen)
        /\ sighups' = 0
        /\ last_ret' = NoCall
        /\ UNCHANGED <<certificates, cert_files, m3_starting, cache,
                       daemonVars, appVars, ngxVars>>

\* DELETE /content-hosting-configurations/{psid}, from the return of a
\* purgeAll that found nothing to delete
M3DeleteCHCReload ==
    LET a == destroy_content_hosting_configuration_reload(provisioning_sessions, conf,
                                                          daemonRunning)
    IN  /\ purging > 0
        /\ purging' = purging - 1
        /\ conf' = a.conf
        /\ resp' = Resp(a.status, a.regen)
        /\ sighups' = reloadSighups(daemonRunning, a.regen)
        /\ last_ret' = NoCall
        /\ UNCHANGED <<storeVars, m3_starting, cache, purge_job,
                       daemonVars, appVars, ngxVars>>

\* POST /certificates/{id}
M3CreateCert(id, pem, ctype) ==
    LET a == create_server_certificate(certificates, cert_files, conf, id, pem, ctype)
    IN  /\ certificates' = a.certs
        /\ cert_files' = a.files
        /\ conf' = a.conf
        /\ resp' = Resp(a.status, a.regen)
        /\ sighups' = 0
        /\ last_ret' = NoCall
        /\ UNCHANGED <<provisioning_sessions, purging, m3_starting, cache, purge_job,
                       daemonVars, appVars, ngxVars>>

\* PUT /certificates/{id}
M3UpdateCert(id, pem) ==
    LET a == update_server_certificate(provisioning_sessions, certificates, cert_files,
                                       conf, daemonRunning, id, pem)
    IN  /\ certificates' = a.certs
        /\ cert_files' = a.files
        /\ conf' = a.conf
        /\ resp' = Resp(a.status, a.regen)
        /\ sighups' = reloadSighups(daemonRunning, a.regen)
        /\ last_ret' = NoCall
        /\ UNCHANGED <<provisioning_sessions, purging, m3_starting, cache, purge_job,
                       daemonVars, appVars, ngxVars>>

\* DELETE /certificates/{id}
M3DeleteCert(id) ==
    LET a == destroy_server_certificate(provisioning_sessions, certificates, cert_files,
                                        conf, id)
    IN  /\ certificates' = a.certs
        /\ cert_files' = a.files
        /\ conf' = a.conf
        /\ resp' = Resp(a.status, a.regen)
        /\ sighups' = 0
        /\ last_ret' = NoCall
        /\ UNCHANGED <<provisioning_sessions, purging, m3_starting, cache, purge_job,
                       daemonVars, appVars, ngxVars>>

\* Context.addContentHostingConfiguration called on the store itself
CtxAddCHC(psid, chc) ==
    LET r == addContentHostingConfiguration(provisioning_sessions, certificates, psid, chc)
    IN  /\ provisioning_sessions' = r.sess
        /\ resp' = Resp(IF r.ret = "None" THEN 0 ELSE 500, "none")
        /\ sighups' = 0
        /\ last_ret' = r.ret
        /\ UNCHANGED <<certificates, cert_files, conf, purging, m3_starting, cache,
                       purge_job, daemonVars, appVars, ngxVars>>

\* Context.updateContentHostingConfiguration called on the store itself
CtxUpdateCHC(psid, chc) ==
    LET r == updateContentHostingConfiguration(provisioning_sessions, certificates, psid, chc)
    IN  /\ provisioning_sessions' = r.sess
        /\ resp' = Resp(IF r.ret = "ValueError" THEN 500 ELSE 0, "none")
        /\ sighups' = 0
        /\ last_ret' = r.ret
        /\ UNCHANGED <<certificates, cert_files, conf, purging, m3_starting, cache,
                       purge_job, daemonVars, appVars, ngxVars>>

\* Context.addCertificate called on the store itself
CtxAddCert(id, pem) ==
    LET r == addCertificate(certificates, cert_files, id, pem, TRUE)
    IN  /\ certificates' = r.certs
        /\ cert_files' = r.files
        /\ resp' = Resp(0, "none")
        /\ sighups' = 0
        /\ last_ret' = r.ret
        /\ UNCHANGED <<provisioning_sessions, conf, purging, m3_starting, cache,
                       purge_job, daemonVars, appVars, ngxVars>>

\* Context.updateCertificate called on the store itself
CtxUpdateCert(id, pem) ==
    LET r == addCertificate(certificates, cert_files, id, pem, FALSE)
    IN  /\ certificates' = r.certs
        /\ cert_files' = r.files
        /\ resp' = Resp(0, "none")
        /\ sighups' = 0
        /\ last_ret' = r.ret
        /\ UNCHANGED <<provisioning_sessions, conf, purging, m3_starting, cache,
                       purge_job, daemonVars, appVars, ngxVars>>

\* sighup_handler: Context.reload(), and the Proxy-reload task when it
\* returned True
sighup_handler(config_changed, subscriptable) ==
    LET r == Context_reload(provisioning_sessions, certificates, cert_files,
                            config_changed, subscriptable)
        l == IF r.ret = "True" THEN reload(provisioning_sessions, conf, daemonRunning)
             ELSE [ret |-> NoCall, conf |-> conf, regen |-> "none"]
    IN  /\ certificates' = r.certs
        /\ conf' = l.conf
        /\ resp' = Resp(0, l.regen)
        /\ sighups' = reloadSighups(daemonRunning, l.regen)
        /\ last_ret' = r.ret
        /\ UNCHANGED <<provisioning_sessions, cert_files, purging, m3_starting, cache,
                       purge_job, daemonVars, appVars, ngxVars>>

\* A file of the certificates cache directory put there or removed by hand,
\* which the scan of __loadCachedCertificates finds at the next HUP
CertificateFileChanged(id) ==
    /\ cert_files' = IF id \in DOMAIN cert_files THEN Without(cert_files, id)
                     ELSE With(cert_files, id, Pem("pem1", "LF"))
    /\ resp' = Resp(0, "none")
    /\ sighups' = 0
    /\ last_ret' = NoCall
    /\ UNCHANGED <<provisioning_sessions, certificates, conf, purging, m3_starting,
                   cache, purge_job, daemonVars, appVars, ngxVars>>

\* M3Server.purge_content_hosting_cache as far as the list of matching cache
\* entries: what it answers, or that files are to be deleted first
purge_content_hosting_cache(dir, psid, pattern, ctype) ==
    IF ctype # PurgeCType THEN [status |-> 415, ret |-> NoCall, to_purge |-> {}]
    ELSE LET b == purge_begin(dir, psid, pattern)
         IN  [status |-> IF b.ret = "Pending" THEN 0 ELSE purge_status(b.ret),
              ret |-> b.ret, to_purge |-> b.to_purge]

\* POST /content-hosting-configurations/{psid}/purge
M3PurgeCache(psid, pattern, ctype) ==
    LET a == purge_content_hosting_cache(cache, psid, pattern, ctype)
    IN  /\ a.ret = "Pending" => purge_job = NoJob
        /\ purge_job' = IF a.ret = "Pending"
                        THEN [caller |-> "purge", psid |-> psid, pattern |-> pattern,
                              began |-> cache, to_purge |-> a.to_purge]
                        ELSE purge_job
        /\ resp' = Resp(a.status, "none")
        /\ sighups' = 0
        /\ last_ret' = IF a.ret = "Pending" THEN NoCall ELSE a.ret
        /\ UNCHANGED <<storeVars, conf, purging, m3_starting, cache,
                       daemonVars, appVars, ngxVars>>

\* _purgeCacheFiles removes the next file of its list, in whatever order
\* os.walk listed them.  When the purge returns, the handler that called it
\* goes on: the purge handler answers, the DELETE handler reloads and answers.
PurgeStep(f) ==
    /\ purge_job # NoJob
    /\ f \in purge_job.to_purge
    /\ LET r == purgeCacheFiles_step(cache, purge_job.to_purge, f, daemonRunning)
           a == destroy_content_hosting_configuration_reload(provisioning_sessions, conf,
                                                             daemonRunning)
       IN  /\ cache' = r.dir
           /\ IF r.ret = "Pending"
              THEN /\ purge_job' = [purge_job EXCEPT !.to_purge = r.to_purge]
                   /\ resp' = Resp(0, "none")
                   /\ sighups' = 0
                   /\ last_ret' = NoCall
                   /\ conf' = conf
              ELSE /\ purge_job' = NoJob
                   /\ last_ret' = r.ret
                   /\ IF purge_job.caller = "purge"
                      THEN /\ resp' = Resp(purge_status(r.ret), "none")
                           /\ sighups' = r.sighups
                           /\ conf' = conf
                      ELSE /\ resp' = Resp(a.status, a.regen)
                           /\ sighups' = r.sighups + reloadSighups(daemonRunning, a.regen)
                           /\ conf' = a.conf
    /\ UNCHANGED <<storeVars, purging, m3_starting, daemonVars, appVars, ngxVars>>

\* the child caches the response to a request for uri in a location of psid
CacheStore(psid, uri) ==
    LET f == CacheFile(cache_key(proxy_cache_key(psid), uri))
    IN  /\ daemonRunning
        /\ conf.exists
        /\ psid \in DOMAIN conf.from
        /\ conf.from[psid].dcs # <<>>
        /\ f \notin cache
        /\ f \notin purge_job.began
        /\ cache' = cache \cup {f}
        /\ UNCHANGED <<storeVars, conf, m3Vars, purge_job, last_ret, sighups,
                       daemonVars, appVars, ngxVars>>

\* the child's cache manager removes a file it had written
CacheEvict(f) ==
    /\ f \in cache
    /\ f.has_key
    /\ cache' = cache \ {f}
    /\ UNCHANGED <<storeVars, conf, m3Vars, purge_job, last_ret, sighups,
                   daemonVars, appVars, ngxVars>>

\* NginxLocationConfig.addRewriteRule on the location writeConfiguration is
\* building, held as the one location of the one entry of server_configs
AddRewriteRule(request_path_pattern, mapped_path) ==
    LET rules == IF server_configs = <<>> THEN <<>>
                 ELSE server_configs[1].locations[1].rewrite_rules
        t == transform_rewrite_rules(request_path_pattern, mapped_path)
    IN  /\ Len(rules) < MaxRules
        /\ merge_ret' = CASE t.ret = "None" -> "False"
                          [] t.ret = "ok" -> "True"
                          [] OTHER -> t.ret
        /\ server_configs' =
             IF t.ret = "ok"
             THEN <<NginxServerConfig({"h1"}, TRUE, NoCert,
                        <<[path_prefix |-> "/m4d/",
                           rewrite_rules |-> Append(rules, <<t.regex, t.replace>>),
                           downstream_prefix_url |-> "http://origin1",
                           provisioning_session |-> "ps1"]>>)>>
             ELSE server_configs
        /\ UNCHANGED <<storeVars, conf, m3Vars, proxyVars, daemonVars, appVars, merge_pos>>

\* the distribution configurations of the store in the order
\* writeConfiguration goes through them, each with the provisioning session
\* id and the downstream_origin of the CHC it is in
StoredDCs ==
    LET of(psid) ==
            IF psid \in DOMAIN provisioning_sessions
            THEN LET chc == provisioning_sessions[psid].chc
                 IN  [i \in 1..Len(chc.dcs) |->
                         [certificate_id |-> chc.dcs[i].certificate_id,
                          certificate_filename |->
                              IF chc.dcs[i].certificate_id # NoCert
                              THEN getCertificateFilename(certificates,
                                                          chc.dcs[i].certificate_id)
                              ELSE NoCert,
                          canonical_domain_name |-> chc.dcs[i].canonical_domain_name,
                          domain_name_alias |-> chc.dcs[i].domain_name_alias,
                          m4d |-> m4d_path_prefix(chc.dcs[i].base_url_path).ret,
                          path_prefix |-> m4d_path_prefix(chc.dcs[i].base_url_path).path,
                          provisioning_session_id |-> psid,
                          downstream_origin |-> chc.base_url]]
            ELSE <<>>
    IN  of("ps1") \o of("ps2")

\* writeConfiguration up to its merge loops: server_configs built from the
\* store, or the IndexError raised on the way
BuildServerConfigs ==
    /\ server_configs = <<>>
    /\ StoredDCs # <<>>
    /\ IF \E d \in 1..Len(StoredDCs) : StoredDCs[d].m4d = "IndexError"
       THEN /\ merge_ret' = "IndexError"
            /\ UNCHANGED <<server_configs, merge_pos>>
       ELSE LET cs == build_server_configs(StoredDCs, TRUE, <<>>)
            IN  /\ server_configs' = [i \in 1..Len(cs) |-> cs[i].svr]
                /\ merge_pos' = merge_next(0, 0, Len(cs), TRUE)
                /\ merge_ret' = merge_ret
    /\ UNCHANGED <<storeVars, conf, m3Vars, proxyVars, daemonVars, appVars>>

\* One mergeServer call of the merge loops of writeConfiguration, on the
\* entries i < j of server_configs the loops are at; a merge deletes entry j
\* and starts the loops again
MergeCall(i, j) ==
    /\ merge_pos = <<i, j>>
    /\ i < j /\ j <= Len(server_configs)
    /\ LET r == mergeServer(server_configs[i], server_configs[j])
       IN  /\ merge_ret' = r.ret
           /\ server_configs' = IF r.ret = "True"
                                THEN DelEntry([server_configs EXCEPT ![i] = r.self], j)
                                ELSE server_configs
           /\ merge_pos' = merge_next(i, j, Len(server_configs'), r.ret = "True")
    /\ UNCHANGED <<storeVars, conf, m3Vars, proxyVars, daemonVars, appVars>>

----------------------------------------------------------------------------
(* Specifications *)

\* No purge under way and an empty cache directory
InitProxy ==
    /\ cache = {}
    /\ purge_job = NoJob
    /\ last_ret = NoCall
    /\ sighups = 0

\* No configuration being generated
InitNgx ==
    /\ server_configs = <<>>
    /\ merge_ret = NoCall
    /\ merge_pos = MergeDone

\* The store as Context.__init__ leaves it: no provisioning session, the
\* certificates found in the cache directory
InitStore ==
    /\ provisioning_sessions = <<>>
    /\ certificates \in {[i \in S |-> i] : S \in SUBSET CertIds}
    /\ cert_files \in [DOMAIN certificates -> {Pem("pem1", "LF")}]
    /\ purging = 0
    /\ m3_starting = 0

\* The server in its main loop with its child running
Init ==
    /\ InitStore
    /\ conf = [exists |-> TRUE, from |-> GenConfig(<<>>)]
    /\ resp = Resp(0, "written")
    /\ proc = 1 /\ alive = {1} /\ wait_task = "waiting"
    /\ start_times = <<0>>
    /\ now = 0
    /\ spawned = 1
    /\ signalled = {}
    /\ pc = "loop"
    /\ app_exit = "Pending"
    /\ set_calls = 0
    /\ wait_on = 1
    /\ m3_serve_task = "running"
    /\ loop_sigs = {}
    /\ retcode = "NotExited"
    /\ InitProxy
    /\ InitNgx

Next ==
    \/ \E psid \in Psids, chc \in ValidCHCs, ctype \in CTypes :
          \* one body is enough for the requests refused for their media type
          /\ ctype = "application/json" \/ chc.dcs = <<>>
          /\ M3CreateCHC(psid, chc, ctype)
    \/ \E psid \in Psids, chc \in ValidCHCs : M3UpdateCHC(psid, chc)
    \/ \E psid \in Psids : M3DeleteCHC(psid)
    \/ M3DeleteCHCReload
    \/ \E id \in CertIds, pem \in Pems, ctype \in CTypes :
          /\ ctype = "application/x-pem-file" \/ pem = Pem("pem1", "LF")
          /\ M3CreateCert(id, pem, ctype)
    \/ \E id \in CertIds, pem \in Pems : M3UpdateCert(id, pem)
    \/ \E id \in CertIds : M3DeleteCert(id)

Spec == Init /\ [][Next]_vars

\* The server in its main loop, its child running or just gone, and the
\* requests that concern one certificate
InitM3 ==
    /\ provisioning_sessions = <<>>
    /\ certificates \in {<<>>, [i \in {"certA"} |-> i]}
    /\ cert_files \in [DOMAIN certificates -> {Pem("pem1", "LF")}]
    /\ purging = 0
    /\ m3_starting = 0
    /\ conf = [exists |-> TRUE, from |-> GenConfig(<<>>)]
    /\ resp = Resp(0, "written")
    /\ proc \in {0, 1}
    /\ alive = {proc} \ {0}
    /\ wait_task = IF proc = 0 THEN "true" ELSE "waiting"
    /\ start_times = <<0>>
    /\ now = 0
    /\ spawned = 1
    /\ signalled = {}
    /\ pc = "loop"
    /\ app_exit = "Pending"
    /\ set_calls = 0
    /\ wait_on = 1
    /\ m3_serve_task = "running"
    /\ loop_sigs = {}
    /\ retcode = "NotExited"
    /\ InitProxy
    /\ InitNgx

M3CHCs == {c \in CHCs : /\ c.ingest # "push-ingest" /\ c.has_dcs
                        /\ Len(c.dcs) <= 1
                        /\ \A i \in 1..Len(c.dcs) : c.dcs[i].certificate_id # "certB"}

NextM3 ==
    \/ \E psid \in Psids, chc \in M3CHCs, ctype \in CTypes : M3CreateCHC(psid, chc, ctype)
    \/ \E res \in StartResults : M3StartDaemonDone(res)
    \/ \E psid \in Psids, chc \in M3CHCs : M3UpdateCHC(psid, chc)
    \/ \E psid \in Psids, chc \in M3CHCs : CtxAddCHC(psid, chc)
    \/ \E psid \in Psids : M3DeleteCHC(psid)
    \/ M3DeleteCHCReload
    \/ \E pem \in Pems : M3UpdateCert("certA", pem)

SpecM3 == InitM3 /\ [][NextM3]_vars

\* The server in its main loop with its child running; in the cache directory
\* a stray file and a response cached for a provisioning session of an
\* earlier run
InitPurge ==
    /\ provisioning_sessions = <<>>
    /\ certificates = <<>>
    /\ cert_files = <<>>
    /\ purging = 0
    /\ m3_starting = 0
    /\ conf = [exists |-> TRUE, from |-> GenConfig(<<>>)]
    /\ resp = Resp(0, "written")
    /\ proc = 1 /\ alive = {1} /\ wait_task = "waiting"
    /\ start_times = <<0>>
    /\ now = 0
    /\ spawned = 1
    /\ signalled = {}
    /\ pc = "loop"
    /\ app_exit = "Pending"
    /\ set_calls = 0
    /\ wait_on = 1
    /\ m3_serve_task = "running"
    /\ loop_sigs = {}
    /\ retcode = "NotExited"
    /\ cache = {ForeignFile, CacheFile(cache_key(proxy_cache_key("ps2"), <<"/a">>))}
    /\ purge_job = NoJob
    /\ last_ret = NoCall
    /\ sighups = 0
    /\ InitNgx

\* a pull CHC with one distribution configuration
PurgeCHC == [ingest |-> "http-pull-ingest", has_dcs |-> TRUE,
             dcs |-> <<[certificate_id |-> NoCert]>>]

\* request paths, one of them with ":u=" in it
PurgeUris == {<<"/a">>, <<"/b">>, <<"/a", KeySep, "/b">>}
PurgePatterns == {NoPattern, Pattern(<<"/a">>), Pattern(<<"(">>)}

NextPurge ==
    \/ M3CreateCHC("ps1", PurgeCHC, "application/json")
    \/ M3DeleteCHC("ps1")
    \/ M3DeleteCHCReload
    \/ \E psid \in Psids, pattern \in PurgePatterns, ctype \in {PurgeCType, "application/json"} :
          /\ ctype = PurgeCType \/ pattern = NoPattern
          /\ M3PurgeCache(psid, pattern, ctype)
    \/ \E f \in purge_job.to_purge : PurgeStep(f)
    \/ \E uri \in PurgeUris : CacheStore("ps1", uri)
    \/ \E f \in cache : CacheEvict(f)

SpecPurge == InitPurge /\ [][NextPurge]_vars

\* CHCs whose ingest the generation of the configuration accepts or refuses
GenCHCs == {c \in CHCs : c.ingest # "None" /\ c.has_dcs /\ c.dcs = <<>>}

\* The requests on content hosting configurations, push ingest among them
NextGen ==
    \/ \E psid \in Psids, chc \in GenCHCs : M3CreateCHC(psid, chc, "application/json")
    \/ \E psid \in Psids, chc \in GenCHCs : M3UpdateCHC(psid, chc)
    \/ \E psid \in Psids : M3DeleteCHC(psid)
    \/ M3DeleteCHCReload

SpecGen == Init /\ [][NextGen]_vars

\* PEM texts with either line terminator
CtxPems == Pems \cup CrLfPems

\* Calls on the store itself, and the PUT requests, for one certificate
NextCtx ==
    \/ \E psid \in Psids, chc \in M3CHCs : CtxAddCHC(psid, chc)
    \/ \E psid \in Psids, chc \in M3CHCs : CtxUpdateCHC(psid, chc)
    \/ \E pem \in CtxPems : CtxAddCert("certA", pem)
    \/ \E pem \in CtxPems : CtxUpdateCert("certA", pem)
    \/ \E psid \in Psids, chc \in M3CHCs : M3UpdateCHC(psid, chc)
    \/ \E pem \in CtxPems : M3UpdateCert("certA", pem)

SpecCtx == InitM3 /\ [][NextCtx]_vars

\* rewrite rules as (regex, replacement) pairs, and lists of them
Rule1 == <<"^/x/", "/u/">>
Rule2 == <<"^/y/", "/v/">>
RuleLists == {<<>>, <<Rule1>>, <<Rule1, Rule2>>, <<Rule2, Rule1>>, <<Rule1, Rule1>>}

NginxLocationConfig(path_prefix, rules) ==
    [path_prefix |-> path_prefix, rewrite_rules |-> rules]

LocationB == NginxLocationConfig("/b/", <<>>)
LocationsA == {NginxLocationConfig("/a/", rl) : rl \in RuleLists}
LocationLists ==
    {<<l>> : l \in LocationsA \cup {LocationB}}
    \cup {<<l, LocationB>> : l \in LocationsA}
    \cup {<<LocationB, l>> : l \in LocationsA}

MergeHosts == <<"h1", "h2", "h3">>
MergeCertFiles == {NoCert, "certA"}

\* writeConfiguration at its merge loops: one server block per host name
InitMerge ==
    /\ provisioning_sessions = <<>>
    /\ certificates = <<>>
    /\ cert_files = <<>>
    /\ purging = 0
    /\ m3_starting = 0
    /\ conf = NoFile
    /\ resp = Resp(0, "none")
    /\ proc = 0
    /\ start_times = <<>>
    /\ now = 0
    /\ alive = {}
    /\ spawned = 0
    /\ signalled = {}
    /\ pc = "startup"
    /\ app_exit = "Pending"
    /\ set_calls = 0
    /\ wait_task = "none"
    /\ wait_on = 0
    /\ m3_serve_task = "none"
    /\ loop_sigs = {}
    /\ retcode = "NotExited"
    /\ InitProxy
    /\ merge_ret = NoCall
    /\ merge_pos = <<1, 2>>
    /\ \E use_cache \in BOOLEAN :
         \E cf \in [1..Len(MergeHosts) -> MergeCertFiles] :
           \E ll \in [1..Len(MergeHosts) -> LocationLists] :
             server_configs = [k \in 1..Len(MergeHosts) |->
                                  NginxServerConfig({MergeHosts[k]}, use_cache, cf[k], ll[k])]

NextMerge ==
    \E i \in 1..Len(MergeHosts), j \in 1..Len(MergeHosts) : MergeCall(i, j)

SpecMerge == InitMerge /\ [][NextMerge]_vars

\* the merge loops run on: writeConfiguration is one coroutine without an
\* await in these loops
SpecMergeFair == SpecMerge /\ WF_vars(NextMerge)

\* requestPathPattern values, character by character, and mappedPath values
RewritePatterns ==
    {<<>>, <<"a">>, <<"^", "a">>, <<"a", "$">>, <<"^", "a", "$">>, <<"(", "a", ")">>,
     <<"^", "(", "a", ")", "$">>, <<"(">>, <<"a", "\\", "$">>}
MappedPaths == {<<[ref |-> 0, lit |-> "/u/"]>>,
                <<[ref |-> 0, lit |-> "/u/"], [ref |-> 1, lit |-> ""]>>}

SpecRewrite ==
    Init /\ [][\E pat \in RewritePatterns, mp \in MappedPaths : AddRewriteRule(pat, mp)]_vars

\* A store of one or two provisioning sessions whose distribution
\* configurations name a host, perhaps an alias and perhaps a certificate
InitBuild ==
    /\ certificates = [i \in {"certA"} |-> i]
    /\ cert_files = [i \in {"certA"} |-> Pem("pem1", "LF")]
    /\ purging = 0
    /\ m3_starting = 0
    /\ conf = NoFile
    /\ resp = Resp(0, "none")
    /\ proc = 0
    /\ start_times = <<>>
    /\ now = 0
    /\ alive = {}
    /\ spawned = 0
    /\ signalled = {}
    /\ pc = "startup"
    /\ app_exit = "Pending"
    /\ set_calls = 0
    /\ wait_task = "none"
    /\ wait_on = 0
    /\ m3_serve_task = "none"
    /\ loop_sigs = {}
    /\ retcode = "NotExited"
    /\ InitProxy
    /\ InitNgx
    /\ LET DCs(path) == [certificate_id : {NoCert, "certA"},
                         canonical_domain_name : {"h1", "h2"},
                         domain_name_alias : {"None", "alias"},
                         base_url_path : {path}]
           Stored(origin, dcs) ==
               [chc |-> [ingest |-> "http-pull-ingest", base_url |-> origin,
                         has_dcs |-> TRUE, dcs |-> dcs],
                chc_hash |-> 0]
       IN  \E n \in 1..2 : \E d1 \in [1..n -> DCs(<<"/", "m4d", "/", "a">>)] :
             \/ provisioning_sessions = [p \in {"ps1"} |-> Stored("http://origin1", d1)]
             \/ \E d2 \in [1..1 -> DCs(<<"/", "m4d", "/", "a", "/">>)
                                    \cup DCs(<<"m4d", "/", "b", "/">>) \cup DCs(<<>>)] :
                  provisioning_sessions =
                      [p \in {"ps1", "ps2"} |->
                          IF p = "ps1" THEN Stored("http://origin1", d1)
                          ELSE Stored("http://origin2", d2)]

SpecBuild ==
    InitBuild
    /\ [][\/ BuildServerConfigs
          \/ \E i \in 1..Len(server_configs), j \in 1..Len(server_configs) :
                MergeCall(i, j)]_vars

\* Pull CHCs with no distribution configuration, or one for host h1 that may
\* name certificate certA
HupCHCs ==
    [ingest : {"http-pull-ingest"}, has_dcs : {TRUE}, base_url : {"http://origin1"},
     dcs : {<<>>} \cup {<<[certificate_id |-> c, canonical_domain_name |-> "h1",
                           domain_name_alias |-> "None",
                           base_url_path |-> <<"/", "m4d", "/", "a", "/">>]>> :
                          c \in {NoCert, "certA"}}]

\* The M3 requests for one certificate and two provisioning sessions, HUP
\* signals, and files of the certificate cache changed between them
SpecHup ==
    InitM3
    /\ [][\/ \E psid \in Psids, chc \in HupCHCs :
                M3CreateCHC(psid, chc, "application/json")
          \/ M3StartDaemonDone("True")
          \/ \E psid \in Psids, chc \in HupCHCs : M3UpdateCHC(psid, chc)
          \/ \E psid \in Psids : M3DeleteCHC(psid)
          \/ M3DeleteCHCReload
          \/ M3CreateCert("certA", Pem("pem1", "LF"), "application/x-pem-file")
          \/ \E pem \in Pems : M3UpdateCert("certA", pem)
          \/ M3DeleteCert("certA")
          \/ \E config_changed \in BOOLEAN, subscriptable \in BOOLEAN :
                sighup_handler(config_changed, subscriptable)
          \/ CertificateFileChanged("certA")]_vars

\* __app entered: the exit future made, the signal handlers installed
InitApp ==
    /\ provisioning_sessions = <<>>
    /\ certificates = <<>>
    /\ cert_files = <<>>
    /\ purging = 0
    /\ m3_starting = 0
    /\ conf = NoFile
    /\ resp = Resp(0, "none")
    /\ proc = 0
    /\ start_times = <<>>
    /\ now = 0
    /\ alive = {}
    /\ spawned = 0
    /\ signalled = {}
    /\ pc = "startup"
    /\ app_exit = "Pending"
    /\ set_calls = 0
    /\ wait_task = "none"
    /\ wait_on = 0
    /\ m3_serve_task = "none"
    /\ loop_sigs = {}
    /\ retcode = "NotExited"
    /\ InitProxy
    /\ InitNgx

NextApp ==
    \/ AppStartup
    \/ \E res \in StartResults : AppFirstStartDone(res)
    \/ \E c \in 1..MaxSpawns : ChildExits(c)
    \/ WaitTaskDone
    \/ WaitTaskCancelled
    \/ \E sig \in ExitSignals : ExitSignal(sig)
    \/ SigTerm
    \/ M3ServerExits
    \/ MainLoopWake
    \/ \E res \in StartResults : AppRestartDone(res)
    \/ AppTeardownStop
    \/ AppStopDone
    \/ Tick

SpecApp == InitApp /\ [][NextApp]_vars

\* __app with M3 requests for one provisioning session coming in while it runs
SpecAppM3 ==
    InitApp
    /\ [][\/ AppStartup
          \/ AppFirstStartDone("True")
          \/ \E c \in 1..MaxSpawns : ChildExits(c)
          \/ WaitTaskDone
          \/ WaitTaskCancelled
          \/ ExitSignal("SIGINT")
          \/ MainLoopWake
          \/ AppRestartStopped
          \/ AppRestartDone("True")
          \/ AppTeardownStop
          \/ AppStopDone
          \/ \E chc \in GenCHCs \cup {PurgeCHC} :
                /\ pc \in LoopPcs /\ retcode = "NotExited"
                /\ M3CreateCHC("ps1", chc, "application/json") \/ M3UpdateCHC("ps1", chc)
          \/ /\ retcode = "NotExited"
             /\ M3StartDaemonDone("True")]_vars

----------------------------------------------------------------------------
(* Properties *)

\* some distribution configuration of a stored CHC names certificate id
Referenced(id) ==
    \E p \in DOMAIN provisioning_sessions :
        \E i \in DOMAIN provisioning_sessions[p].chc.dcs :
            provisioning_sessions[p].chc.dcs[i].certificate_id = id

\* the start times that lie within the last RapidRestartSecs seconds
RecentStarts ==
    Cardinality({i \in DOMAIN start_times : start_times[i] > now - RapidRestartSecs})

\* C1: in every state reached through the M3 operations on certificates and
\* content hosting configurations, each distribution configuration of a stored
\* CHC that carries a certificate id names a certificate present in the map.
C1_CrossReferenceIntegrity ==
    \A p \in DOMAIN provisioning_sessions :
        \A i \in DOMAIN provisioning_sessions[p].chc.dcs :
            LET id == provisioning_sessions[p].chc.dcs[i].certificate_id
            IN  id # NoCert => id \in DOMAIN certificates

\* both certificates are referenced by stored distribution configurations
C1_Witness == \A id \in CertIds : Referenced(id)

\* C2: DELETE of an existing certificate answers 204 and removes the map entry
\* and the PEM file exactly when no stored distribution configuration names
\* it; otherwise it answers 409 and the map entry and the file stay.
C2_DeleteCertificateSafety ==
    [][\A id \in CertIds :
          (id \in DOMAIN certificates /\ M3DeleteCert(id)) =>
              IF Referenced(id)
              THEN /\ resp'.status = 409
                   /\ certificates' = certificates
                   /\ cert_files' = cert_files
              ELSE /\ resp'.status = 204
                   /\ id \notin DOMAIN certificates'
                   /\ id \notin DOMAIN cert_files']_vars

\* a delete has been refused and the referenced certificate is still there
C2_Witness ==
    /\ resp.status = 409
    /\ \E id \in DOMAIN certificates : id \in DOMAIN cert_files /\ Referenced(id)

C4_RegeneratedFromCommittedStore ==
    resp.regen = "written" =>
        conf = [exists |-> TRUE, from |-> GenConfig(provisioning_sessions)]

\* a request has changed the store and regenerated the configuration
C4_Witness ==
    /\ resp.regen = "written"
    /\ resp.status \in {0, 200, 201}
    /\ DOMAIN provisioning_sessions # {}

\* C5 as stated: once six starts have been made within a 10 second window and
\* that window is over, exit code 1 has been set.
C5_SixStartsExit ==
    (/\ Len(start_times) >= 6
     /\ now - start_times[1] >= 10
     /\ retcode = "NotExited")
    => app_exit = "1"

\* C5: when the main loop handles a child exit and six or more starts lie
\* within the last 10 seconds, it does not restart the child: it sets exit
\* code 1 on the pending exit future.
C5_RapidExitHandled ==
    [][(pc = "loop" /\ pc' # "loop" /\ wait_task \in WaitDone /\ RecentStarts >= 6)
       => /\ pc' # "restarting"
          /\ set_calls' = set_calls + 1
          /\ app_exit = "Pending" => app_exit' = "1"]_vars

\* the sixth start was handled as too rapid: exit code 1 is set
C5_Witness ==
    /\ app_exit = "1"
    /\ wait_task = "true"
    /\ Len(start_times) >= 6

C7_ExitSignalReturnsZero ==
    (loop_sigs # {} /\ retcode # "NotExited")
    => retcode = "0" /\ proc = 0 /\ ~conf.exists

\* C8 as stated: set_result is called on the exit future at most once.
C8_ExitFutureSetOnce == set_calls <= 1

\* C9 as stated: once the M3 server task has finished in the main loop, the
\* process, unless killed, ends only by returning 1, with the child stopped and
\* the configuration file deleted.
C9_M3ExitReturnsOne ==
    (m3_serve_task = "done" /\ retcode \notin {"NotExited", "Killed"})
    => retcode = "1" /\ proc = 0 /\ ~conf.exists

\* C10: when a wait on the child is cancelled, the child is sent no signal and
\* keeps running, the handle is kept so that daemonRunning() stays true, and
\* the wait reports False.
C10_CancelOnlyAbandonsWait ==
    [][(wait_task = "cancelling" /\ wait_task' # "cancelling")
       => /\ wait_task' = "false"
          /\ proc' = proc /\ proc' # 0
          /\ signalled' = signalled
          /\ alive' = alive]_vars

\* a wait has been cancelled and the child runs on, unsignalled
C10_Witness ==
    /\ wait_task = "false"
    /\ proc # 0 /\ proc \in alive /\ proc \notin signalled

\* C11 as stated: a request during which the generation of the configuration
\* failed is not answered as a success.
C11_WriteFailureFatal ==
    resp.regen = "failed" => resp.status \notin {200, 201, 204}

\* C12 as stated: an update of the store made right after a successful add of
\* the same content, for a CHC or for a certificate, returns False (no change)
\* and leaves the store and the PEM file as they are.
C12_UpdateAfterAddNoChange ==
    [][/\ \A psid \in Psids, chc \in M3CHCs :
             (/\ psid \in DOMAIN provisioning_sessions
              /\ provisioning_sessions[psid] = [chc |-> chc, chc_hash |-> hashOpenAPIObject(chc)]
              /\ CtxUpdateCHC(psid, chc))
             => /\ last_ret' = "False"
                /\ provisioning_sessions' = provisioning_sessions
       /\ \A pem \in CtxPems :
             (/\ "certA" \in DOMAIN certificates
              /\ "certA" \in DOMAIN cert_files
              /\ cert_files["certA"] = write_text(pem)
              /\ CtxUpdateCert("certA", pem))
             => /\ last_ret' = "False"
                /\ cert_files' = cert_files
                /\ certificates' = certificates]_vars

\* C13 as stated: a PUT of a CHC or of a certificate whose content equals what
\* is stored is answered 204, the configuration file is not regenerated and
\* the child is sent no signal.
C13_PutUnchangedNoReload ==
    [][/\ \A psid \in Psids, chc \in M3CHCs :
             (/\ psid \in DOMAIN provisioning_sessions
              /\ provisioning_sessions[psid].chc = chc
              /\ M3UpdateCHC(psid, chc))
             => /\ resp'.status = 204 /\ resp'.regen = "none"
                /\ conf' = conf /\ sighups' = 0
       /\ \A pem \in CtxPems :
             (/\ "certA" \in DOMAIN certificates
              /\ "certA" \in DOMAIN cert_files
              /\ cert_files["certA"] = write_text(pem)
              /\ M3UpdateCert("certA", pem))
             => /\ resp'.status = 204 /\ resp'.regen = "none"
                /\ conf' = conf /\ sighups' = 0]_vars

\* file f carries a key that reads as (psid, path), path matched by re
KeyMatches(psid, re, f) ==
    /\ f.has_key
    /\ Len(split(f.key)) = 2
    /\ split(f.key)[1] = <<psid>>
    /\ regex_match(re, split(f.key)[2])

\* file f carries a key that reads as (psid, some path)
KeyOf(psid, f) ==
    /\ f.has_key
    /\ Len(split(f.key)) = 2
    /\ split(f.key)[1] = <<psid>>

\* the cache file of a response to a request for uri in a location of psid
Cached(psid, uri) == CacheFile(cache_key(proxy_cache_key(psid), uri))

\* C14: when a purge by regular expression for psid returns True, no file that
\* was in the cache directory when the purge began and is still there has a
\* key that reads as (psid, path) with the expression matching path.
C14_PurgeByRegexSound ==
    [][/\ (/\ purge_job.caller = "purge" /\ purge_job.pattern.present
           /\ purge_job' = NoJob /\ last_ret' = "True")
          => \A f \in purge_job.began \cap cache' :
                 ~KeyMatches(purge_job.psid, purge_job.pattern.re, f)
       /\ \A psid \in Psids, pattern \in PurgePatterns :
             (/\ pattern.present /\ M3PurgeCache(psid, pattern, PurgeCType)
              /\ last_ret' = "True")
             => \A f \in cache \cap cache' : ~KeyMatches(psid, pattern.re, f)]_vars

\* a purge has returned True after deleting files and signalling the child;
\* the file for /a is gone, the one for /b is still cached
C14_Witness ==
    /\ last_ret = "True" /\ resp.status = 204 /\ sighups = 1
    /\ Cached("ps1", <<"/a">>) \notin cache
    /\ Cached("ps1", <<"/b">>) \in cache

\* C15: a purge for psid deletes only files whose key reads as (psid, path)
\* with path satisfying the predicate of the purge; the handler steps that
\* begin a purge or follow one delete nothing.
C15_PurgeDeletesOnlyMatching ==
    [][/\ (\E g \in purge_job.to_purge : PurgeStep(g))
          => \A f \in cache \ cache' :
                 /\ KeyOf(purge_job.psid, f)
                 /\ purge_job.pattern.present
                    => KeyMatches(purge_job.psid, purge_job.pattern.re, f)
       /\ (\/ \E psid \in Psids, pattern \in PurgePatterns :
                 M3PurgeCache(psid, pattern, PurgeCType)
           \/ M3DeleteCHC("ps1")
           \/ M3DeleteCHCReload)
          => cache' = cache]_vars

\* a purge of everything cached for ps1 has returned True; the file of the
\* other session, the file without a key and the file whose key does not
\* read as a pair are still there
C15_Witness ==
    /\ last_ret = "True" /\ sighups >= 1
    /\ Cached("ps1", <<"/a">>) \notin cache
    /\ Cached("ps1", <<"/b">>) \notin cache
    /\ Cached("ps2", <<"/a">>) \in cache
    /\ ForeignFile \in cache
    /\ Cached("ps1", <<"/a", KeySep, "/b">>) \in cache

\* C16 as stated, for the files cached when the request came in: when a DELETE
\* of the CHC of psid is answered 204, none of them whose key reads as
\* (psid, path) is left in the cache directory.
C16_DeleteLeavesNoCachedFile ==
    [][(/\ purge_job.caller = "destroy" /\ purge_job' = NoJob
        /\ resp'.status = 204)
       => \A f \in purge_job.began \cap cache' : ~KeyOf(purge_job.psid, f)]_vars

\* C17 as stated: a purge request whose expression does not compile is
\* answered 422, deletes no file and sends the child no signal.
C17_BadRegexRefused ==
    [][\A psid \in Psids, pattern \in PurgePatterns :
          (/\ pattern.present /\ ~regex_compile(pattern.re)
           /\ M3PurgeCache(psid, pattern, PurgeCType))
          => /\ resp'.status = 422
             /\ cache' = cache
             /\ sighups' = 0]_vars

\* C18 as stated: when a file the purge is about to delete has gone, the
\* purge goes on with the files left on its list and does not return False.
C18_VanishedFileTolerated ==
    [][\A f \in purge_job.to_purge :
          (f \notin cache /\ PurgeStep(f))
          => /\ last_ret' # "False"
             /\ purge_job.to_purge \ {f} # {}
                => purge_job'.to_purge = purge_job.to_purge \ {f}]_vars

\* C19 as stated: the key of every cached response splits on ":u=" into the
\* provisioning session of its location and the path requested.
C19_KeySplitsIntoSessionAndPath ==
    \A psid \in Psids, uri \in PurgeUris :
        Cached(psid, uri) \in cache
        => /\ proxy_cache_key(psid) = <<psid, ":u=", "$uri">>
           /\ key_to_prov_sess_and_url_path(Cached(psid, uri).key) = <<(<<psid>>), uri>>

\* how often rule r occurs in a list of rewrite rules
RuleCount(rules, r) == Cardinality({i \in 1..Len(rules) : rules[i] = r})

\* two locations have the same path prefix and the same multiset of rules
SameLocation(a, b) ==
    /\ a.path_prefix = b.path_prefix
    /\ \A r \in {Rule1, Rule2} : RuleCount(a.rewrite_rules, r) = RuleCount(b.rewrite_rules, r)

\* two lists of locations are the same collection, whatever their order
SameCollection(la, lb) ==
    /\ Len(la) = Len(lb)
    /\ \A x \in {la[i] : i \in 1..Len(la)} \cup {lb[i] : i \in 1..Len(lb)} :
           Cardinality({i \in 1..Len(la) : SameLocation(la[i], x)})
             = Cardinality({i \in 1..Len(lb) : SameLocation(lb[i], x)})

\* the condition under which two server blocks are to be merged
Mergeable(a, b) ==
    /\ (a.certificate_file = NoCert) = (b.certificate_file = NoCert)
    /\ a.certificate_file = b.certificate_file
    /\ a.port = b.port
    /\ a.use_cache = b.use_cache
    /\ SameCollection(a.locations, b.locations)

\* C20 as stated: mergeServer merges exactly when the two server blocks agree
\* in TLS status, certificate file, port, use_cache and location collection;
\* a merge gives the surviving block the union of the host names; a refusal
\* changes neither block.
C20_MergeIffSameServer ==
    [][\A i \in 1..Len(MergeHosts), j \in 1..Len(MergeHosts) :
          MergeCall(i, j)
          => /\ (merge_ret' = "True") = Mergeable(server_configs[i], server_configs[j])
             /\ merge_ret' = "True"
                => /\ server_configs'[i].hostnames
                        = server_configs[i].hostnames \cup server_configs[j].hostnames
                   /\ Len(server_configs') = Len(server_configs) - 1
             /\ merge_ret' = "False" => server_configs' = server_configs]_vars

\* C21: the merge loops of writeConfiguration end, and when they have ended a
\* further pass over their output merges nothing: no entry merges a later
\* one, and no two distinct entries agree in TLS status, certificate file,
\* port, use_cache and location collection.
C21_MergeLoopEndsAtFixpoint ==
    /\ <>(merge_pos = MergeDone)
    /\ [](merge_pos = MergeDone
          => \A i \in 1..Len(server_configs), j \in 1..Len(server_configs) :
                 /\ i < j => mergeServer(server_configs[i], server_configs[j]).ret = "False"
                 /\ i # j => ~Mergeable(server_configs[i], server_configs[j]))

C21_Witness ==
    /\ merge_pos = MergeDone
    /\ Len(server_configs) = 2
    /\ merge_ret = "False"
    /\ Cardinality(server_configs[1].hostnames) = 2

\* C22 as stated: two server blocks are compatible in both directions or in
\* none: when mergeServer is called on the entries i and j, it merges j into i
\* exactly when it would merge i into j.
C22_MergeSymmetric ==
    [][\A i \in 1..Len(MergeHosts), j \in 1..Len(MergeHosts) :
          MergeCall(i, j)
          => ((merge_ret' = "True")
                = (mergeServer(server_configs[j], server_configs[i]).ret = "True"))]_vars

\* C24 as stated: a rule added for a pattern with b groups gets k more
\* back-references in its replacement, the last one $(b+k), with k = 1 for a
\* pattern that starts with "^" (with or without "$" at its end) and k = 2
\* for any other pattern.
C24_AddedReferencesOneOrTwo ==
    [][\A pat \in RewritePatterns, mp \in MappedPaths :
          AddRewriteRule(pat, mp) /\ merge_ret' = "True"
          => LET rules == server_configs'[1].locations[1].rewrite_rules
                 out == rules[Len(rules)][2]
                 k == Len(out) - Len(mp)
             IN  /\ k = (IF pat[1] = "^" THEN 1 ELSE 2)
                 /\ out[Len(out)].ref = compiled_groups(pat, FALSE, 0, 0) + k]_vars

\* C24, amended: the replacement keeps the pieces of mappedPath and gets k
\* more back-references, k = 1 + (1 if the pattern does not start with "^")
\* + (1 if it does not end with "$"): ${1} in front for the first, $(b+k-1)
\* and $(b+k) at the end; the normalized expression has b+k groups unless the
\* final "$" of the pattern was escaped.
C24_AddedReferencesByAnchors ==
    [][\A pat \in RewritePatterns, mp \in MappedPaths :
          AddRewriteRule(pat, mp) /\ merge_ret' = "True"
          => LET rules == server_configs'[1].locations[1].rewrite_rules
                 out == rules[Len(rules)]
                 b == compiled_groups(pat, FALSE, 0, 0)
                 open == IF pat[1] = "^" THEN 0 ELSE 1
                 loose == IF pat[Len(pat)] = "$" THEN 0 ELSE 1
                 k == 1 + open + loose
             IN  /\ Len(out[2]) = Len(mp) + k
                 /\ SubSeq(out[2], open + 1, open + Len(mp)) = mp
                 /\ open = 1 => out[2][1].ref = 1
                 /\ loose = 1 => out[2][Len(out[2]) - 1].ref = b + k - 1
                 /\ out[2][Len(out[2])].ref = b + k
                 /\ (Len(pat) >= 2 /\ pat[Len(pat) - 1] = "\\")
                    \/ compiled_groups(out[1], FALSE, 0, 0) = b + k]_vars

C24_Witness ==
    /\ merge_ret = "True"
    /\ server_configs # <<>>
    /\ LET rules == server_configs[1].locations[1].rewrite_rules
       IN  /\ Len(rules) = MaxRules
           /\ Len(rules[1][2]) = 4
           /\ rules[1][2][4].ref = 3
           /\ Len(rules[MaxRules][2]) = 2
           /\ rules[MaxRules][2][2].ref = 2

\* C25 as stated: for every pattern that compiles, the empty one included,
\* addRewriteRule stores an expression that starts with "^", ends with "$" and
\* is itself a valid expression; it returns False only for a pattern that does
\* not compile, and it never raises.
C25_NormalizedForEveryPattern ==
    [][\A pat \in RewritePatterns, mp \in MappedPaths :
          AddRewriteRule(pat, mp)
          => /\ merge_ret' \in {"True", "False"}
             /\ (merge_ret' = "False") = (compiled_groups(pat, FALSE, 0, 0) < 0)
             /\ merge_ret' = "True"
                => LET rules == server_configs'[1].locations[1].rewrite_rules
                       regex == rules[Len(rules)][1]
                   IN  /\ regex[1] = "^"
                       /\ regex[Len(regex)] = "$"
                       /\ compiled_groups(regex, FALSE, 0, 0) >= 0]_vars

\* C23 as stated: once writeConfiguration has built its server blocks, every
\* distribution configuration with a domainNameAlias has its location in a
\* server block that lists the alias, also when several distribution
\* configurations use the same alias.
C23_AliasServesEveryLocation ==
    server_configs # <<>>
    => \A d \in 1..Len(StoredDCs) :
           StoredDCs[d].domain_name_alias # "None"
           => \E i \in 1..Len(server_configs) :
                  /\ StoredDCs[d].domain_name_alias \in server_configs[i].hostnames
                  /\ \E l \in 1..Len(server_configs[i].locations) :
                         server_configs[i].locations[l].path_prefix
                           = StoredDCs[d].path_prefix

\* C26 as stated: a POST or PUT of a CHC without ingestConfiguration, without
\* a distributionConfigurations array or with a distribution configuration
\* that names an unknown certificate is answered 415, and the store stays as
\* it was.
C26_InvalidCHCAnswered415 ==
    [][\A psid \in Psids, chc \in M3CHCs :
          LET invalid ==
                  \/ chc.ingest = "None"
                  \/ ~chc.has_dcs
                  \/ \E i \in 1..Len(chc.dcs) :
                         /\ chc.dcs[i].certificate_id # NoCert
                         /\ ~haveCertificate(certificates, chc.dcs[i].certificate_id)
          IN  /\ (/\ M3CreateCHC(psid, chc, "application/json")
                  /\ ~haveContentHostingConfiguration(provisioning_sessions, psid)
                  /\ invalid)
                 => resp'.status = 415 /\ UNCHANGED storeVars
              /\ (/\ M3UpdateCHC(psid, chc)
                  /\ haveContentHostingConfiguration(provisioning_sessions, psid)
                  /\ provisioning_sessions[psid].chc # chc
                  /\ invalid)
                 => resp'.status = 415 /\ UNCHANGED storeVars]_vars

\* C27 as stated: every CHC of the store has the http-pull-ingest ingest
\* configuration, so that writeConfiguration never fails on the ingest of a
\* stored CHC.
C27_StoreHoldsOnlyPullIngest ==
    /\ \A psid \in DOMAIN provisioning_sessions :
           provisioning_sessions[psid].chc.ingest = "http-pull-ingest"
    /\ writeConfiguration(provisioning_sessions, conf).ret = "True"

\* C28 as stated: when the teardown of __app gets to the end, it has deleted
\* the generated configuration file and returns the exit code of the main
\* loop, or it returns 2 when the file could not be deleted, as when it was
\* already absent.
C28_TeardownReturnsCode ==
    [][(AppStopDone \/ AppTeardownStop) /\ pc' = "done"
       => /\ conf.exists => retcode' = app_exit /\ ~conf'.exists
          /\ ~conf.exists => retcode' = "2"]_vars

\* C29 as stated: at most one child process is alive, and it is the one the
\* handle of the supervisor refers to.
C29_OneChildOwnedByHandle ==
    /\ Cardinality(alive) <= 1
    /\ alive \subseteq {proc}

\* C30 as stated, for stores of http-pull-ingest CHCs: a PUT that changed the
\* store and was answered 200 leaves a configuration file generated from the
\* store as it is now, and a child restarted by the main loop starts with such
\* a file.
C30_ConfigurationFollowsStore ==
    [][LET pulls(sess) == \A p \in DOMAIN sess : sess[p].chc.ingest = "http-pull-ingest"
           current(sess, cf) == cf.exists /\ cf.from = GenConfig(sess)
       IN  /\ \A chc \in GenCHCs \cup {PurgeCHC} :
                  (/\ M3UpdateCHC("ps1", chc)
                   /\ resp'.status = 200
                   /\ pulls(provisioning_sessions'))
                  => current(provisioning_sessions', conf')
           /\ (AppRestartDone("True") /\ pulls(provisioning_sessions))
              => current(provisioning_sessions, conf)]_vars

\* C31 as stated: merging keeps the routing.  When a distribution
\* configuration is served under one of its host names before a mergeServer
\* call (the server block that lists the name has a location with its path
\* prefix, its own ingest origin and its own provisioning session id), it is
\* served so after the call.
C31_MergeKeepsRouting ==
    [][\A i \in 1..Len(server_configs), j \in 1..Len(server_configs) :
          MergeCall(i, j)
          => LET routed(d, h, cs) ==
                     \E k \in 1..Len(cs) :
                         /\ h \in cs[k].hostnames
                         /\ \E l \in 1..Len(cs[k].locations) :
                                /\ cs[k].locations[l].path_prefix = d.path_prefix
                                /\ cs[k].locations[l].downstream_prefix_url
                                     = d.downstream_origin
                                /\ cs[k].locations[l].provisioning_session
                                     = d.provisioning_session_id
             IN  \A d \in 1..Len(StoredDCs) :
                   \A h \in {StoredDCs[d].canonical_domain_name,
                             StoredDCs[d].domain_name_alias} :
                       routed(StoredDCs[d], h, server_configs)
                       => routed(StoredDCs[d], h, server_configs')]_vars

\* C32 as stated: while the proxy daemon runs, the generated configuration
\* file exists; a reload whose generation fails leaves the file of the last
\* generation in place.
C32_RunningDaemonHasConfiguration ==
    daemonRunning => conf.exists

\* C33: a HUP that finds neither the application configuration nor the
\* certificate cache directory changed makes Context.reload() return False,
\* and the handler then neither rewrites the proxy configuration nor signals
\* the proxy.
C33_UnchangedHupDoesNothing ==
    [][\A config_changed \in BOOLEAN, subscriptable \in BOOLEAN :
          (/\ sighup_handler(config_changed, subscriptable)
           /\ ~config_changed
           /\ certificates = [i \in DOMAIN cert_files |-> i])
          => /\ last_ret' = "False"
             /\ resp'.regen = "none"
             /\ sighups' = 0]_vars

C35_CertificateMapMirrorsDirectory ==
    /\ DOMAIN certificates = DOMAIN cert_files
    /\ \A id \in DOMAIN certificates : certificates[id] = id

\* a certificate was added and the deletion of another, still in use, refused
C35_Witness ==
    /\ resp.status = 409
    /\ DOMAIN cert_files = {"certA", "certB"}
    /\ DOMAIN certificates = {"certA", "certB"}
    /\ \E p \in DOMAIN provisioning_sessions : provisioning_sessions[p].chc.dcs # <<>>

\* C36 as stated: every purge requested on the purge endpoint that matched at
\* least one cache file ends with exactly one SIGHUP to the proxy, sent by the
\* step after which none of the matched files is left; no step before the last
\* sends one.
C36_PurgeSignalsOnceAfterDeletions ==
    [][\A f \in purge_job.to_purge :
          (PurgeStep(f) /\ purge_job.caller = "purge")
          => IF purge_job' = NoJob
             THEN /\ sighups' = 1
                  /\ \A g \in getCacheFilesAndKeys(purge_job.began) :
                        key_filter(purge_job.psid, purge_job.pattern, g) => g \notin cache'
             ELSE sighups' = 0]_vars

\* C37 as stated: the block rendered for a location holds one rewrite
\* directive per rewrite rule, in the order of the rules, each made of the
\* rule's expression, the rule's replacement and "break", and all of them
\* stand before the proxy_cache_key and proxy_pass directives.
C37_RewriteDirectivePerRule ==
    \A i \in 1..Len(server_configs) :
        \A l \in 1..Len(server_configs[i].locations) :
            LET locn == server_configs[i].locations[l]
                out == location_config(locn)
                n == Len(locn.rewrite_rules)
            IN  /\ Len(out) = n + 3
                /\ out[1].directive = "location"
                /\ \A k \in 1..n :
                      out[k + 1] = [directive |-> "rewrite",
                                    args |-> <<locn.rewrite_rules[k][1],
                                               locn.rewrite_rules[k][2], "break">>]
                /\ out[n + 2].directive = "proxy_cache_key"
                /\ out[n + 3].directive = "proxy_pass"

\* C38 as stated: in every configuration generated in a state reached through
\* M3 requests and HUP reloads, each server block that holds the location of
\* a distribution configuration with a certificate id is a TLS block: it has
\* a certificate file and listens on the HTTPS port.
C38_CertificateMeansTls ==
    resp.regen = "written"
    => LET cs == build_server_configs(StoredDCs, TRUE, <<>>)
       IN  \A d \in 1..Len(StoredDCs) : \A i \in 1..Len(cs) :
             (/\ StoredDCs[d].certificate_id # NoCert
              /\ \E l \in 1..Len(cs[i].svr.locations) :
                    /\ cs[i].svr.locations[l].path_prefix = StoredDCs[d].path_prefix
                    /\ cs[i].svr.locations[l].provisioning_session
                         = StoredDCs[d].provisioning_session_id)
             => /\ cs[i].svr.certificate_file # NoCert
                /\ cs[i].svr.port = "https_port"

\* C39 as stated: normalisation keeps the meaning of the back-references.  For
\* every rule added, each back-reference $n of the mapped path to a capturing
\* group of the request path pattern refers, in the replacement handed to
\* nginx, to the group that the same parenthesis opens in the normalised
\* expression (the pattern stands in it as it was, after "^(.*)" when it did
\* not begin with "^").
C39_BackReferencesKeepTheirGroup ==
    [][\A pat \in RewritePatterns, mp \in MappedPaths :
          (AddRewriteRule(pat, mp) /\ merge_ret' = "True")
          => LET rules == server_configs'[1].locations[1].rewrite_rules
                 regex2 == rules[Len(rules)][1]
                 replace2 == rules[Len(rules)][2]
                 opens(re) == {i \in 1..Len(re) :
                                  /\ re[i] = "("
                                  /\ i < Len(re) => re[i + 1] # "?"
                                  /\ i > 1 => re[i - 1] # "\\"}
                 group_at(re, i) == Cardinality({j \in opens(re) : j <= i})
                 at_r == IF pat[1] = "^" THEN 0 ELSE 5
                 at_p == IF pat[1] = "^" THEN 0 ELSE 1
             IN  \A k \in 1..Len(mp) : \A i \in opens(pat) :
                     (mp[k].ref > 0 /\ group_at(pat, i) = mp[k].ref)
                     => /\ i + at_r \in opens(regex2)
                        /\ group_at(regex2, i + at_r) = replace2[k + at_p].ref]_vars

\* C40 as stated: whatever the path of a distribution configuration's base
\* URL, the empty path included, the generation of the configuration does not
\* fail on it, and the distribution configuration gets a location whose path
\* prefix is that path with "/" put before it and after it where it is not
\* there ("/" for the empty path).
C40_PathPrefixForEveryBaseUrl ==
    [][BuildServerConfigs
       => /\ merge_ret' # "IndexError"
          /\ \A p \in DOMAIN provisioning_sessions :
               \A d \in 1..Len(provisioning_sessions[p].chc.dcs) :
                 LET path == provisioning_sessions[p].chc.dcs[d].base_url_path
                     p1 == IF path = <<>> \/ path[1] # "/" THEN <<"/">> \o path ELSE path
                     forced == IF p1[Len(p1)] # "/" THEN Append(p1, "/") ELSE p1
                 IN  \E i \in 1..Len(server_configs') :
                       \E l \in 1..Len(server_configs'[i].locations) :
                         /\ server_configs'[i].locations[l].provisioning_session = p
                         /\ server_configs'[i].locations[l].path_prefix = forced]_vars

====
